---------------------------- MODULE Spec2Model ----------------------------
(***************************************************************************)
(* Loeschstation: device identity resolution and safety classification.    *)
(*                                                                         *)
(* The model follows src/modules/device_scan.py, raid_storcli.py,          *)
(* secure_erase.py, fio_runner.py, badblocks_runner.py, nwipe_runner.py    *)
(* and the device handling of src/ui/main_window.py.                       *)
(*                                                                         *)
(* Representation of Python values:                                        *)
(*  - a device path is a sequence of tokens cut at the places the code     *)
(*    tests with startswith(): "/dev/sda" is <<"/dev/", "sd", "a">>,       *)
(*    "/dev/megaraid/0/8:2" is <<"/dev/", "megaraid/", "0", "/", "8:2">>;  *)
(*    the empty string is <<>> and Python's None is <<"None">>;            *)
(*  - a size string is [num, suffix]: num is <<digits, fraction digits>>   *)
(*    of its leading decimal number (<<>> when it has none), suffix the    *)
(*    characters after it: "1.8 TB" is [num |-> <<18, 1>>,                 *)
(*    suffix |-> <<" ", "T", "B">>];                                       *)
(*  - a mountpoint is the sequence of its components and separators:       *)
(*    "/boot/efi" is <<"/", "boot", "/", "efi">>;                          *)
(*  - serials and models are strings, taken as already stripped of         *)
(*    surrounding white space; a JSON null counts as "".                   *)
(***************************************************************************)
EXTENDS Integers, Sequences, FiniteSets, TLC

VARIABLES
    lsblk,          \* the kernel's block devices, as `lsblk -O -J` lists them
    lsblk_run,      \* how the run of lsblk ends: "ok", or the way it fails
    storcli,        \* the controller tool's answers: [err, ctrls]
    devices,        \* MainWindow.devices
    last_warning,   \* device_scan._last_warning
    expert_enabled, \* ExpertMode.enabled
    config,         \* MainWindow.config: [default_badblocks_mode]
    op,             \* the operator flow that ran last, with what it issued
    steps,          \* events so far
    target_info,    \* argument of _match_linux_device in the resolver harness
    resolved        \* its result

progVars == <<storcli, devices, last_warning, expert_enabled, config, op, steps>>
resolverVars == <<target_info, resolved>>
vars == <<lsblk, lsblk_run, storcli, devices, last_warning, expert_enabled, config,
          op, steps, target_info, resolved>>

(***************************************************************************)
(* Bounds of the model.                                                    *)
(***************************************************************************)
MaxDisks == 2       \* kernel disks present at one time
MaxPds == 1         \* physical drives reported by the controller
MaxSelected == 2    \* table rows selected for one operator flow
MaxSteps == 2       \* events of one run of the program
MaxMatchDisks == 3  \* kernel disks handed to the resolver harness

(***************************************************************************)
(* Python values.                                                          *)
(***************************************************************************)
None == <<"None">>
Empty == <<>>

Truthy(v) == v # Empty /\ v # None

\* the element of a singleton: Only({e(x) : x \in {v}}) is e(v), with v a
\* local variable that is computed once
Only(S) == CHOOSE v \in S : TRUE

OrElse(a, b) == IF Truthy(a) THEN a ELSE b

StartsWith(s, prefix) ==
    /\ Len(s) >= Len(prefix)
    /\ SubSeq(s, 1, Len(prefix)) = prefix

DevPrefix == <<"/dev/">>
SdPrefix == <<"/dev/", "sd">>
NvmePrefix == <<"/dev/", "nvme">>
MegaraidPrefix == <<"/dev/", "megaraid/">>

IsKernelShape(p) == StartsWith(p, SdPrefix) \/ StartsWith(p, NvmePrefix)

RECURSIVE SeqToSet(_)
SeqToSet(s) == IF s = <<>> THEN {} ELSE {Head(s)} \cup SeqToSet(Tail(s))

(***************************************************************************)
(* device_scan._size_to_bytes: the leading number of the size string       *)
(* times the multiplier of the unit letter that follows it.  The product   *)
(* is kept exact as a decimal [m, e] standing for m * 10^e.                *)
(***************************************************************************)
RECURSIVE LStrip(_)
LStrip(chars) ==
    IF chars # <<>> /\ Head(chars) = " " THEN LStrip(Tail(chars)) ELSE chars

Upper(c) ==
    CASE c = "k" -> "K"
      [] c = "m" -> "M"
      [] c = "g" -> "G"
      [] c = "t" -> "T"
      [] OTHER -> c

\* group(2) of r"([0-9]*\.?[0-9]+)\s*([KMGT]?)" under re.IGNORECASE, upper-cased
UnitOf(size_str) ==
    LET rest == LStrip(size_str.suffix)
    IN  IF rest # <<>> /\ Upper(Head(rest)) \in {"K", "M", "G", "T"}
        THEN Upper(Head(rest))
        ELSE ""

\* the multiplier table, as the power of ten of each entry
MultiplierExp(unit) ==
    CASE unit = "K" -> 3
      [] unit = "M" -> 6
      [] unit = "G" -> 9
      [] unit = "T" -> 12
      [] OTHER -> 0

Zero == [m |-> 0, e |-> 0]
MinusOne == [m |-> -1, e |-> 0]

SizeToBytes(size_str) ==
    IF size_str.num = <<>> /\ size_str.suffix = <<>> THEN Zero   \* not size_str
    ELSE IF size_str.num = <<>> THEN Zero                        \* not match
    ELSE [m |-> size_str.num[1],
          e |-> MultiplierExp(UnitOf(size_str)) - size_str.num[2]]

RECURSIVE Pow10(_)
Pow10(d) == IF d = 0 THEN 1 ELSE 10 * Pow10(d - 1)

\* x * 10^d > y, for integers x, y and d >= 0, without forming the product
ScaledGreater(x, d, y) ==
    IF d >= 10 THEN (IF y < 0 THEN x >= 0 ELSE x > 0)
    ELSE x > (y \div Pow10(d))

\* x * 10^d = y
ScaledEqual(x, d, y) ==
    IF d >= 10 THEN x = 0 /\ y = 0
    ELSE y % Pow10(d) = 0 /\ x = y \div Pow10(d)

\* a > b on the decimals SizeToBytes returns
Greater(a, b) ==
    IF a.e >= b.e
    THEN ScaledGreater(a.m, a.e - b.e, b.m)
    ELSE ~ ( ScaledGreater(b.m, b.e - a.e, a.m)
             \/ ScaledEqual(b.m, b.e - a.e, a.m) )

(***************************************************************************)
(* device_scan.scan_linux_disks and the classification it applies.         *)
(* An lsblk entry is [name, path, type, size, model, serial, tran, rm,     *)
(* hotplug, mountpoints, children]; rm and hotplug hold the JSON value as  *)
(* written ("\"0\"" is the string "0", "0" the number, "false" the         *)
(* boolean), children are entries [mountpoints, children].                 *)
(***************************************************************************)
Root == <<"/">>
SYSTEM_MOUNTPOINTS ==
    { <<"/">>, <<"/", "boot">>, <<"/", "boot", "/", "efi">>,
      <<"/", "usr">>, <<"/", "var">>, <<"/", "home">> }

RECURSIVE CollectMountpoints(_)
CollectMountpoints(dev) ==
    dev.mountpoints \cup
        UNION { CollectMountpoints(dev.children[i]) : i \in DOMAIN dev.children }

\* system_mp.rstrip("/")
RStripSlash(mp) == IF mp = Root THEN <<>> ELSE mp

\* a variant of the test that accepts the listed mountpoints only
EqualsSystemMountpoint(mountpoints) == mountpoints \cap SYSTEM_MOUNTPOINTS # {}

IsSystemMountpoint(mountpoints) ==
    \E mp \in mountpoints : \E system_mp \in SYSTEM_MOUNTPOINTS :
        mp = system_mp \/ StartsWith(mp, RStripSlash(system_mp) \o <<"/">>)

\* str() of a JSON scalar
PyStr(json) ==
    CASE json = "\"0\"" -> "0"
      [] json = "\"1\"" -> "1"
      [] json = "false" -> "False"
      [] json = "true" -> "True"
      [] json = "null" -> "None"
      [] OTHER -> json

IsInternalMainboardDisk(dev, transport) ==
    LET removable == PyStr(dev.rm)
        hotplug == dev.hotplug
        is_usb == transport = "usb"
    IN  /\ transport \in {"sata", "ata", "nvme"}
        /\ removable = "0"
        /\ hotplug # "true"
        /\ ~ is_usb

\* a variant of the classification without the rule for sata and ata
MountedOrInternal(dev) ==
    IsInternalMainboardDisk(dev, dev.tran) \/ IsSystemMountpoint(CollectMountpoints(dev))

ClassifyIsSystem(dev) ==
    LET transport == dev.tran
        is_system == IsSystemMountpoint(CollectMountpoints(dev))
    IN  IF transport \in {"sata", "ata"} THEN TRUE
        ELSE IF IsInternalMainboardDisk(dev, transport) THEN TRUE
        ELSE is_system

\* a variant of the verdict that clears disks which are not system disks: the
\* claims are tested against it
AllowedUnlessSystem(dev) == ~ ClassifyIsSystem(dev)

\* "erase_allowed": False
KernelEraseAllowed(dev) == FALSE

LinuxRecord(dev) ==
    [ device |-> <<dev.name>>,
      bay |-> <<dev.name>>,
      path |-> dev.path,
      size |-> dev.size,
      model |-> dev.model,
      serial |-> dev.serial,
      transport |-> dev.tran,
      os_path |-> None,
      mountpoints |-> CollectMountpoints(dev),
      is_system |-> ClassifyIsSystem(dev),
      erase_allowed |-> KernelEraseAllowed(dev),
      fio_ok |-> "None",
      erase_ok |-> "None",
      target |-> None,
      mapping_hint |-> None,
      device_id |-> dev.path ]

RECURSIVE ScanLoop(_)
ScanLoop(blockdevices) ==
    IF blockdevices = <<>> THEN <<>>
    ELSE LET dev == Head(blockdevices)
         IN  (IF dev.type # "disk" THEN <<>> ELSE <<LinuxRecord(dev)>>)
                 \o ScanLoop(Tail(blockdevices))

ScanLinuxDisks(blockdevices) == ScanLoop(blockdevices)

(***************************************************************************)
(* device_scan._pick_largest_device and _match_linux_device.               *)
(***************************************************************************)
\* variants of _pick_largest_device and of the (model, size) filter: the
\* claims are tested against them
PickFirstDevice(devs) == IF devs = <<>> THEN <<>> ELSE <<devs[1]>>

ModelOnlyMatches(info, linux_devices) ==
    SelectSeq(linux_devices, LAMBDA dev : dev.model = info.model)

RECURSIVE PickLoop(_, _, _)
PickLoop(devs, largest, largest_size) ==
    IF devs = <<>> THEN largest
    ELSE LET dev == Head(devs)
             size_bytes == SizeToBytes(dev.size)
         IN  IF Greater(size_bytes, largest_size)
             THEN PickLoop(Tail(devs), <<dev>>, size_bytes)
             ELSE PickLoop(Tail(devs), largest, largest_size)

\* <<>> stands for None, <<dev>> for the device picked
PickLargestDevice(devs) ==
    IF devs = <<>> THEN <<>> ELSE PickLoop(devs, <<>>, MinusOne)

PathOrDevice(dev) == OrElse(dev.path, dev.device)

SerialUsable(target_serial) == target_serial # "" /\ target_serial # "UNKNOWN"

HintAccepted(os_path) == Truthy(os_path) /\ StartsWith(os_path, DevPrefix)

\* serial_matches
SerialMatches(info, linux_devices) ==
    IF SerialUsable(info.serial)
    THEN SelectSeq(linux_devices, LAMBDA dev : dev.serial = info.serial)
    ELSE <<>>

\* model_size_matches
ModelSizeMatches(info, linux_devices) ==
    SelectSeq(linux_devices,
              LAMBDA dev : dev.model = info.model /\ dev.size = info.size)

MatchResult(info, serial_matches, by_serial, by_model) ==
    LET os_path == OrElse(info.os_path, Empty)
    IN  IF serial_matches # <<>> /\ by_serial # <<>>
        THEN PathOrDevice(by_serial[1])
        ELSE IF serial_matches = <<>> /\ info.model # ""
                  /\ info.size # [num |-> <<>>, suffix |-> <<>>]
                  /\ by_model # <<>>
        THEN PathOrDevice(by_model[1])
        ELSE IF HintAccepted(os_path) THEN os_path
        ELSE None

\* a variant that consults device_scan._last_warning
MatchUnlessWarned(info, linux_devices) ==
    IF last_warning # <<>> THEN <<"None">>
    ELSE Only({ Only({ MatchResult(info, serial_matches, by_serial, by_model) :
                         by_serial \in {PickLargestDevice(serial_matches)},
                         by_model \in {PickLargestDevice(model_size_matches)} }) :
                  serial_matches \in {SerialMatches(info, linux_devices)},
                  model_size_matches \in {ModelSizeMatches(info, linux_devices)} })

MatchLinuxDevice(info, linux_devices) ==
    Only({ Only({ MatchResult(info, serial_matches, by_serial, by_model) :
                    by_serial \in {PickLargestDevice(serial_matches)},
                    by_model \in {PickLargestDevice(model_size_matches)} }) :
             serial_matches \in {SerialMatches(info, linux_devices)},
             model_size_matches \in {ModelSizeMatches(info, linux_devices)} })

(***************************************************************************)
(* raid_storcli.list_physical_drives.  The controller tool's answer for    *)
(* one drive is [eid_slt, size, intf, state, sn, model, hint, detail]:     *)
(* sn and model are the fields of the PD LIST entry, hint the              *)
(* kernel-looking path found in it (<<>> when there is none), detail the   *)
(* block of the detail dump for the same enclosure:slot.  The block is     *)
(* [found, sn, model, inquiry_sn, inquiry_model, attributes_sn,            *)
(* attributes_model, text_sn, hint]: found tells which call delivered it   *)
(* ("all" for /cX/eall/sall, "single" for /cX/eN/sM, "none" when both      *)
(* failed), sn and model are its direct fields, inquiry_* the fields of    *)
(* its "Inquiry Data" block, attributes_* those of its "Device             *)
(* attributes" block, text_sn the serial the regular expression finds in   *)
(* its strings, hint the kernel-looking path found in it.                  *)
(***************************************************************************)
VirtualPath(cid, eid_slt) == <<"/dev/", "megaraid/", cid, "/", eid_slt>>

\* _extract_os_path: the path found by the scan, else the synthetic path
ExtractOsPath(found, cid, eid_slt) ==
    IF Truthy(found) THEN found ELSE VirtualPath(cid, eid_slt)

\* _udev_serial_and_model: the properties of the kernel device at the path
UdevSerialAndModel(device_path, blockdevices) ==
    LET hits == SelectSeq(blockdevices, LAMBDA dev : dev.path = device_path)
    IN  IF ~ Truthy(device_path) \/ hits = <<>>
        THEN [serial |-> "", model |-> ""]
        ELSE [serial |-> hits[1].serial, model |-> hits[1].model]

StrOr(a, b) == IF a # "" THEN a ELSE b

\* a variant of _extract_serial_and_model that reads the direct fields only
DirectFieldsOnly(value, regex_fallback) == [serial |-> value.sn, model |-> value.model]

\* _extract_serial_and_model: direct fields, "Inquiry Data", "Device
\* attributes", then the regular expression when one is given
ExtractSerialAndModel(value, regex_fallback) ==
    LET serial1 == value.sn
        model1 == value.model
        serial2 == IF serial1 = "" THEN value.inquiry_sn ELSE serial1
        model2 == IF serial1 = "" /\ model1 = "" THEN value.inquiry_model ELSE model1
        serial3 == IF serial2 = "" THEN value.attributes_sn ELSE serial2
        model3 == IF serial2 = "" /\ model2 = "" THEN value.attributes_model ELSE model2
        serial4 == IF serial3 = "" /\ regex_fallback THEN value.text_sn ELSE serial3
    IN  [serial |-> serial4, model |-> model3]

\* what _collect_pd_details stores for the drive's (eid, slot), else what
\* _get_pd_details returns: [serial, model, os_path]
PdDetail(cid, entry, blockdevices) ==
    IF entry.detail.found = "none"
    THEN [serial |-> "", model |-> "", os_path |-> Empty]
    ELSE Only({ IF (found.serial = "" \/ found.model = "") /\ Truthy(os_path)
                THEN Only({ [serial |-> StrOr(found.serial, udev.serial),
                             model |-> StrOr(found.model, udev.model),
                             os_path |-> os_path] :
                              udev \in {UdevSerialAndModel(os_path, blockdevices)} })
                ELSE [serial |-> found.serial, model |-> found.model,
                      os_path |-> os_path] :
                  found \in {ExtractSerialAndModel(entry.detail,
                                                   entry.detail.found = "all")},
                  os_path \in {ExtractOsPath(entry.detail.hint, cid, entry.eid_slt)} })

\* list_physical_drives: one entry of PD LIST, detail what the detail calls gave
PhysicalDriveWith(cid, entry, blockdevices, detail) ==
    LET serial0 == entry.sn
        model0 == entry.model
        serial1 == StrOr(detail.serial, serial0)
        model1 == StrOr(detail.model, model0)
        os_path ==
            IF Truthy(detail.os_path) THEN detail.os_path
            ELSE ExtractOsPath(entry.hint, cid, entry.eid_slt)
        udev == UdevSerialAndModel(os_path, blockdevices)
        serial2 == IF serial1 = "" \/ model1 = "" THEN StrOr(serial1, udev.serial) ELSE serial1
        model2 == IF serial1 = "" \/ model1 = "" THEN StrOr(model1, udev.model) ELSE model1
    IN  [ controller |-> cid,
          eid_slt |-> entry.eid_slt,
          size |-> entry.size,
          intf |-> entry.intf,
          model |-> StrOr(model2, "UNKNOWN"),
          serial |-> StrOr(serial2, "UNKNOWN"),
          state |-> entry.state,
          os_path |-> os_path ]

PhysicalDrive(cid, entry, blockdevices) ==
    Only({ PhysicalDriveWith(cid, entry, blockdevices, detail) :
             detail \in {PdDetail(cid, entry, blockdevices)} })

ListPhysicalDrives(cid, pd_list, blockdevices) ==
    [i \in DOMAIN pd_list |-> PhysicalDrive(cid, pd_list[i], blockdevices)]

(***************************************************************************)
(* device_scan.scan_megaraid_devices, _handle_storcli_error and            *)
(* scan_all_devices.  storcli is [err, ctrls]: err the message of the      *)
(* exception list_controllers raises ("" when it returns), ctrls the       *)
(* controllers [id, err, pds], err the same for list_physical_drives.      *)
(***************************************************************************)
NoWarning == <<>>

HandleStorcliError(message, context) ==
    IF message = "storcli-Binary nicht gefunden"
    THEN <<"StorCLI nicht installiert/gefunden">>
    ELSE IF message \in {"sudo-Passwort nicht konfiguriert",
                         "sudo-Authentifizierung fehlgeschlagen"}
    THEN <<"StorCLI: Sudo-Authentifizierung fehlgeschlagen (Passwort in den Einstellungen prüfen)">>
    ELSE <<"StorCLI Fehler (", context, "): ", message>>

\* a variant of the verdict that clears only identified drives
AllowedIfIdentified(pd) == pd.serial # "UNKNOWN"

\* "is_system": False
MegaraidIsSystem(pd) == FALSE
\* "erase_allowed": True
MegaraidEraseAllowed(pd) == TRUE

MegaraidRecord(cid, pd) ==
    LET dev_name == <<"C", cid, " PD ", pd.eid_slt>>
        virtual_path == VirtualPath(cid, pd.eid_slt)
    IN  [ device |-> dev_name,
          bay |-> dev_name,
          path |-> virtual_path,
          size |-> pd.size,
          model |-> pd.model,
          serial |-> pd.serial,
          transport |-> "storcli:" \o pd.intf,
          os_path |-> pd.os_path,
          mountpoints |-> {},
          is_system |-> MegaraidIsSystem(pd),
          erase_allowed |-> MegaraidEraseAllowed(pd),
          fio_ok |-> "None",
          erase_ok |-> "None",
          target |-> None,
          mapping_hint |-> None,
          device_id |-> virtual_path ]

\* the loop over the controllers: [devices, had_warning, warning]
RECURSIVE MegaraidLoop(_, _, _)
MegaraidLoop(ctrls, blockdevices, acc) ==
    IF ctrls = <<>> THEN acc
    ELSE LET ctrl == Head(ctrls)
         IN  IF ctrl.err # ""
             THEN MegaraidLoop(Tail(ctrls), blockdevices,
                     [acc EXCEPT !.had_warning = TRUE,
                                 !.warning = HandleStorcliError(
                                     ctrl.err, "C" \o ctrl.id \o " PD LIST")])
             ELSE MegaraidLoop(Tail(ctrls), blockdevices,
                     [acc EXCEPT !.devices = @ \o
                         Only({ [i \in DOMAIN pds |-> MegaraidRecord(ctrl.id, pds[i])] :
                                  pds \in {ListPhysicalDrives(ctrl.id, ctrl.pds,
                                                              blockdevices)} })])

\* [devices, warning]: the list returned and _last_warning after the call
ScanMegaraidDevices(st, blockdevices, warning) ==
    IF st.err # ""
    THEN [devices |-> <<>>, warning |-> HandleStorcliError(st.err, "Controller")]
    ELSE Only({ [devices |-> r.devices,
                 warning |-> IF ~ r.had_warning THEN NoWarning ELSE r.warning] :
                  r \in {MegaraidLoop(st.ctrls, blockdevices,
                            [devices |-> <<>>, had_warning |-> FALSE,
                             warning |-> warning])} })

ScanAllDevices(show_system_disks, st, blockdevices, warning) ==
    LET linux_devices == ScanLinuxDisks(blockdevices)
        shown == IF ~ show_system_disks
                 THEN SelectSeq(linux_devices, LAMBDA dev : ~ dev.is_system)
                 ELSE linux_devices
    IN  Only({ [devices |-> shown \o mega.devices, warning |-> mega.warning] :
                 mega \in {ScanMegaraidDevices(st, blockdevices, warning)} })

(***************************************************************************)
(* device_scan._run_lsblk and the scans on what it returns.  A run of      *)
(* lsblk ends "ok" (exit 0 and a JSON object with the list blockdevices),  *)
(* "missing" (no such program), "failed" (exit status not 0), "garbled"    *)
(* (output that is no JSON), or with well-formed JSON of another shape:    *)
(* "null", "list", "no key" (an object without blockdevices) and           *)
(* "blockdevices null".  A scan yields [raised, devices, logged]: raised   *)
(* names the exception that leaves the call ("" when it returns), logged   *)
(* tells whether logger.error was called.                                  *)
(***************************************************************************)
LsblkRuns ==
    {"ok", "missing", "failed", "garbled", "null", "list", "no key", "blockdevices null"}

\* _run_lsblk: [shape, listed, blockdevices, logged], shape the type of the
\* value returned, listed whether data.get("blockdevices", []) is a list
RunLsblk(run, blockdevices) ==
    IF run \in {"missing", "failed", "garbled"}
    THEN [shape |-> "dict", listed |-> TRUE, blockdevices |-> <<>>, logged |-> TRUE]
    ELSE IF run = "ok"
    THEN [shape |-> "dict", listed |-> TRUE, blockdevices |-> blockdevices,
          logged |-> FALSE]
    ELSE IF run = "no key"
    THEN [shape |-> "dict", listed |-> TRUE, blockdevices |-> <<>>, logged |-> FALSE]
    ELSE IF run = "blockdevices null"
    THEN [shape |-> "dict", listed |-> FALSE, blockdevices |-> <<>>, logged |-> FALSE]
    ELSE [shape |-> run, listed |-> FALSE, blockdevices |-> <<>>, logged |-> FALSE]

\* scan_linux_disks on the outcome of the run
ScanLinuxDisksRun(run, blockdevices) ==
    Only({ IF data.shape # "dict"
           THEN [raised |-> "AttributeError", devices |-> <<>>, logged |-> data.logged]
           ELSE IF ~ data.listed
           THEN [raised |-> "TypeError", devices |-> <<>>, logged |-> data.logged]
           ELSE [raised |-> "", devices |-> ScanLinuxDisks(data.blockdevices),
                 logged |-> data.logged] :
             data \in {RunLsblk(run, blockdevices)} })

\* scan_all_devices on the outcome of the run: [raised, devices, warning]
ScanAllDevicesRun(show_system_disks, run, st, blockdevices, warning) ==
    Only({ IF linux.raised # ""
           THEN [raised |-> linux.raised, devices |-> <<>>, warning |-> warning]
           ELSE Only({ [raised |-> "", devices |-> all.devices, warning |-> all.warning] :
                         all \in {ScanAllDevices(show_system_disks, st,
                                       RunLsblk(run, blockdevices).blockdevices, warning)} }) :
             linux \in {ScanLinuxDisksRun(run, blockdevices)} })

(***************************************************************************)
(* device_scan.resolve_megaraid_target.                                    *)
(***************************************************************************)
\* target_info: the scanned record with the device's path, else the device
TargetInfo(dev, path, megaraid_devices) ==
    LET found == SelectSeq(megaraid_devices, LAMBDA d : d.path = path)
    IN  IF found = <<>> THEN dev ELSE found[1]

ResolveMegaraidTarget(dev, st, blockdevices) ==
    LET path == OrElse(dev.path, dev.device)
    IN  IF ~ StartsWith(path, MegaraidPrefix)
        THEN (IF Truthy(path) THEN path ELSE None)
        ELSE Only({ MatchLinuxDevice(info, linux_devices) :
                      info \in {TargetInfo(dev, path,
                          ScanMegaraidDevices(st, blockdevices, NoWarning).devices)},
                      linux_devices \in {ScanLinuxDisks(blockdevices)} })

(***************************************************************************)
(* Target resolution of the runners.  A call returns a path or raises:     *)
(* <<"RuntimeError", message>> stands for the exception.                   *)
(***************************************************************************)
Raise(message) == <<"RuntimeError", message>>
IsRaise(r) == Len(r) = 2 /\ r[1] = "RuntimeError"

FirstOf(dev) == OrElse(OrElse(dev.target, dev.path), dev.device)

\* a variant of resolve_erase_target without the checks
ResolveUnchecked(dev, st, blockdevices) == OrElse(OrElse(dev.target, dev.path), dev.device)

\* the check of what resolve_megaraid_target returned
CheckedKernelPath(r, message) ==
    IF Truthy(r) /\ IsKernelShape(r) THEN r ELSE Raise(message)

\* secure_erase.resolve_erase_target (nwipe_runner._resolve_target calls it)
ResolveEraseTarget(dev, st, blockdevices) ==
    LET path == FirstOf(dev)
    IN  IF StartsWith(path, MegaraidPrefix)
        THEN Only({ CheckedKernelPath(r,
                        "ERROR: MegaRAID-Geräte können nicht direkt gelöscht werden.") :
                      r \in {ResolveMegaraidTarget(dev, st, blockdevices)} })
        ELSE IF IsKernelShape(path) THEN path
        ELSE Raise("ERROR: MegaRAID-Geräte können nicht direkt gelöscht werden.")

MappingHint(virtual, r) == <<"MegaRAID Mapping: ">> \o virtual \o <<" → ">> \o r

\* fio_runner.resolve_target: [result, mapping_hint]; the hint is None when
\* the call leaves dev["mapping_hint"] alone
FioResolveTarget(dev, st, blockdevices) ==
    LET raw_path == FirstOf(dev)
    IN  IF ~ Truthy(raw_path)
        THEN [result |-> Raise("FIO-Device nicht angegeben"), mapping_hint |-> None]
        ELSE IF StartsWith(raw_path, MegaraidPrefix)
        THEN Only({ IF Truthy(r) /\ IsKernelShape(r)
                    THEN [result |-> r, mapping_hint |-> MappingHint(raw_path, r)]
                    ELSE [result |-> Raise("MegaRAID-Ziel konnte nicht auf /dev/sdX oder /dev/nvmeY gemappt werden"),
                          mapping_hint |-> None] :
                      r \in {ResolveMegaraidTarget(dev, st, blockdevices)} })
        ELSE IF IsKernelShape(raw_path)
        THEN [result |-> raw_path, mapping_hint |-> None]
        ELSE [result |-> Raise("FIO-Device nicht resolvable: ungültiger Pfad"),
              mapping_hint |-> None]

\* badblocks_runner._resolve_megaraid_path
BadblocksResolveMegaraidPath(dev, blockdevices) ==
    Only({ IF hits = <<>>
           THEN Raise("Badblocks: MegaRAID-Device konnte nicht aufgelöst werden")
           ELSE PathOrDevice(hits[1]) :
             hits \in {SelectSeq(ScanLinuxDisks(blockdevices), LAMBDA candidate :
                          /\ candidate.size = dev.size
                          /\ (dev.model = "" \/ candidate.model = dev.model)
                          /\ (dev.serial = "" \/ candidate.serial = dev.serial))} })

\* badblocks_runner.resolve_target
BadblocksResolveTarget(dev, blockdevices) ==
    LET path == OrElse(dev.path, dev.device)
    IN  IF StartsWith(path, MegaraidPrefix)
        THEN BadblocksResolveMegaraidPath(dev, blockdevices)
        ELSE IF Truthy(path) THEN path
        ELSE Raise("Badblocks: Kein gültiger Gerätepfad gefunden")

\* whether the call reaches device_scan.scan_megaraid_devices
ErasePathScans(dev) ==
    StartsWith(FirstOf(dev), MegaraidPrefix)
        /\ StartsWith(OrElse(dev.path, dev.device), MegaraidPrefix)

(***************************************************************************)
(* MainWindow._reload_devices.                                             *)
(***************************************************************************)
Keep(new, old) == IF new = "None" THEN old ELSE new

\* the record built from a scanned one; r is what resolve_megaraid_target
\* returned for a controller record
Normalized(dev, r, previous) ==
    LET is_mega == StartsWith(dev.path, MegaraidPrefix)
        target0 == OrElse(dev.path, dev.device)
        target == IF is_mega
                  THEN (IF Truthy(r) THEN r ELSE target0)
                  ELSE (IF Truthy(dev.path) THEN dev.path ELSE target0)
        hint == IF is_mega /\ Truthy(r) THEN MappingHint(dev.path, r) ELSE None
        prev == SelectSeq(previous, LAMBDA d : d.device_id = dev.device_id)
        normalized == [dev EXCEPT !.target = target, !.mapping_hint = hint]
    IN  IF prev = <<>> THEN normalized
        ELSE LET previous_entry == prev[Len(prev)]
             IN  [normalized EXCEPT
                    !.fio_ok = Keep(@, previous_entry.fio_ok),
                    !.erase_ok = Keep(@, previous_entry.erase_ok),
                    !.mapping_hint = IF Truthy(@) THEN @ ELSE previous_entry.mapping_hint,
                    !.model = StrOr(@, previous_entry.model),
                    !.serial = StrOr(@, previous_entry.serial),
                    !.transport = StrOr(@, previous_entry.transport)]

Normalize(dev, st, blockdevices, previous) ==
    IF StartsWith(dev.path, MegaraidPrefix)
    THEN Only({ Normalized(dev, r, previous) :
                  r \in {ResolveMegaraidTarget(dev, st, blockdevices)} })
    ELSE Normalized(dev, None, previous)

ReloadDevices(show_system, st, blockdevices, previous, warning) ==
    Only({ [devices |-> [i \in DOMAIN scanned.devices |->
                            Normalize(scanned.devices[i], st, blockdevices, previous)],
            warning |-> IF \E i \in DOMAIN scanned.devices :
                               StartsWith(scanned.devices[i].path, MegaraidPrefix)
                        THEN ScanMegaraidDevices(st, blockdevices, scanned.warning).warning
                        ELSE scanned.warning] :
             scanned \in {ScanAllDevices(show_system, st, blockdevices, warning)} })

(***************************************************************************)
(* The operator flows of MainWindow.  A flow works on the selected rows    *)
(* (copies of the entries of MainWindow.devices) and writes its results    *)
(* back with _apply_device_updates.  oks[i] tells whether the commands     *)
(* run for the i-th device all exit 0.  A flow yields                      *)
(* [handed, calls, commands, error, devices, scanned, logged, exits]: the  *)
(* devices handed to the runner, the target resolutions made, the commands *)
(* issued, the error shown, MainWindow.devices afterwards, whether a call  *)
(* scanned the controllers, the entries appended to the wipe log and what  *)
(* execute_commands returned as "ok" for each device it ran commands for.  *)
(***************************************************************************)
RECURSIVE SortedSeq(_)
SortedSeq(S) ==
    IF S = {} THEN <<>>
    ELSE LET m == CHOOSE x \in S : \A y \in S : x <= y
         IN  <<m>> \o SortedSeq(S \ {m})

\* MainWindow.selected_devices
SelectedDevices(devs, sel) ==
    LET rows == SortedSeq(sel) IN [i \in DOMAIN rows |-> devs[rows[i]]]

\* a variant of _filter_erasable that drops nothing
KeepAll(devs) == devs

\* MainWindow._filter_erasable
FilterErasable(devs) == SelectSeq(devs, LAMBDA d : d.erase_allowed)

PyBool(b) == IF b THEN "True" ELSE "False"

\* MainWindow._apply_device_updates with updates {"erase_ok", "mapping_hint"}
ApplyEraseUpdate(devs, device_id, erase_ok, set_hint, hint) ==
    LET idx == {i \in DOMAIN devs : devs[i].device_id = device_id}
    IN  IF idx = {} THEN devs
        ELSE LET i == CHOOSE x \in idx : \A y \in idx : x <= y
             IN  [devs EXCEPT ![i] =
                     [@ EXCEPT !.erase_ok = erase_ok,
                               !.mapping_hint = IF set_hint THEN hint ELSE @]]

\* MainWindow._apply_device_updates with updates {"fio_ok", "mapping_hint"}
ApplyFioUpdate(devs, device_id, fio_ok, hint) ==
    LET idx == {i \in DOMAIN devs : devs[i].device_id = device_id}
    IN  IF idx = {} THEN devs
        ELSE LET i == CHOOSE x \in idx : \A y \in idx : x <= y
             IN  [devs EXCEPT ![i] = [@ EXCEPT !.fio_ok = fio_ok, !.mapping_hint = hint]]

RECURSIVE MarkAllFailed(_, _)
MarkAllFailed(devs, handed) ==
    IF handed = <<>> THEN devs
    ELSE MarkAllFailed(ApplyEraseUpdate(devs, Head(handed).device_id, "False", FALSE, None),
                       Tail(handed))

NoFlow(devs) ==
    [handed |-> <<>>, calls |-> <<>>, commands |-> <<>>, error |-> Empty,
     devices |-> devs, scanned |-> FALSE, logged |-> <<>>, exits |-> <<>>]

\* the entry MainWindow._log_device_event appends to the wipe log for the row
\* dev and the updates of the flow, hint being updates.get("mapping_hint")
LogEntry(dev, hint) ==
    [ device_id |-> dev.device_id,
      device_path |-> OrElse(dev.path, dev.device),
      mapping_hint |-> IF Truthy(hint) THEN hint
                       ELSE IF Truthy(dev.mapping_hint) THEN dev.mapping_hint
                       ELSE Empty ]

\* the entries of a loop that logs every device with updates that carry no
\* mapping_hint
LogAll(handed) == [i \in DOMAIN handed |-> LogEntry(handed[i], None)]

Call(fn, dev, result) == [fn |-> fn, dev |-> dev, result |-> result]
Command(argv0, target, dev) == [argv0 |-> argv0, target |-> target, device_id |-> dev.device_id]

\* SecureErasePlanner._sata_commands / _nvme_commands: [commands, mapping_hint]
PlanCommands(dev, target, standard) ==
    IF StartsWith(target, NvmePrefix)
    THEN [commands |-> <<Command("nvme format", target, dev)>>,
          mapping_hint |->
              IF standard = "secure-erase" THEN <<"NVMe Secure Erase → ses=1">>
              ELSE IF standard = "secure-erase-enhanced"
              THEN <<"NVMe Secure Erase Enhanced → ses=2">>
              ELSE None]
    ELSE [commands |-> <<Command("hdparm --security-set-pass", target, dev),
                         Command(IF standard = "secure-erase-enhanced"
                                 THEN "hdparm --security-erase-enhanced"
                                 ELSE "hdparm --security-erase", target, dev)>>,
          mapping_hint |->
              IF standard = "secure-erase-enhanced"
              THEN <<"Secure Erase Enhanced → hdparm security-erase-enhanced">>
              ELSE <<"Secure Erase → hdparm security-erase">>]

\* one round of the loop of MainWindow.run_secure_erase: the planner and
\* execute_commands for dev, whose target resolve_erase_target gave
SecureStep(acc, handed, dev, target, standard, ok) ==
    LET called == [acc EXCEPT
                     !.calls = Append(@, Call("resolve_erase_target", dev, target)),
                     !.scanned = @ \/ ErasePathScans(dev)]
    IN  IF IsRaise(target)
        THEN [called EXCEPT !.error = target,
                            !.devices = MarkAllFailed(@, handed),
                            !.logged = @ \o LogAll(handed)]
        ELSE Only({ [called EXCEPT
                       !.commands = @ \o plan.commands,
                       !.devices = ApplyEraseUpdate(@, dev.device_id, PyBool(ok),
                                                    TRUE, plan.mapping_hint),
                       !.logged = Append(@, LogEntry(dev, plan.mapping_hint)),
                       !.exits = Append(@, [device_id |-> dev.device_id, ok |-> ok])] :
                      plan \in {PlanCommands(dev, target, standard)} })

RECURSIVE SecureLoop(_, _, _, _, _, _, _)
SecureLoop(handed, i, standard, oks, st, blockdevices, acc) ==
    IF i > Len(handed) \/ acc.error # Empty THEN acc
    ELSE SecureLoop(handed, i + 1, standard, oks, st, blockdevices,
            Only({ SecureStep(a, handed, handed[i], target, standard, oks[i]) :
                     a \in {acc},
                     target \in {ResolveEraseTarget(handed[i], st, blockdevices)} }))

SecureFlow(devs, handed, standard, confirm, oks, st, blockdevices) ==
    IF handed = <<>> \/ ~ confirm THEN NoFlow(devs)
    ELSE SecureLoop(handed, 1, standard, oks, st, blockdevices,
                    [NoFlow(devs) EXCEPT !.handed = handed])

\* one round of the loop of nwipe_runner.run_nwipe
NwipeStep(acc, dev, target) ==
    LET called == [acc EXCEPT
                     !.calls = Append(@, Call("resolve_erase_target", dev, target)),
                     !.scanned = @ \/ ErasePathScans(dev)]
    IN  IF IsRaise(target) \/ ~ Truthy(target)
        THEN [called EXCEPT !.error = target, !.commands = <<>>]
        ELSE [called EXCEPT !.commands = Append(@, Command("nwipe", target, dev))]

\* nwipe_runner.run_nwipe: every target is resolved before the command is built
RECURSIVE NwipeTargets(_, _, _, _, _)
NwipeTargets(handed, i, st, blockdevices, acc) ==
    IF i > Len(handed) \/ acc.error # Empty THEN acc
    ELSE NwipeTargets(handed, i + 1, st, blockdevices,
            Only({ NwipeStep(a, handed[i], target) :
                     a \in {acc},
                     target \in {ResolveEraseTarget(handed[i], st, blockdevices)} }))

RECURSIVE MarkAllStarted(_, _)
MarkAllStarted(devs, handed) ==
    IF handed = <<>> THEN devs
    ELSE MarkAllStarted(ApplyEraseUpdate(devs, Head(handed).device_id, "None", FALSE, None),
                        Tail(handed))

\* MainWindow._run_nwipe_selected
NwipeSelected(devs, handed, st, blockdevices) ==
    Only({ IF r.error # Empty THEN r
           ELSE [r EXCEPT !.devices = MarkAllStarted(@, handed),
                          !.logged = LogAll(handed)] :
             r \in {NwipeTargets(handed, 1, st, blockdevices,
                                 [NoFlow(devs) EXCEPT !.handed = handed])} })

\* MainWindow.run_nwipe, on the erasable devices of the selection
NwipeFlow(devs, handed, st, blockdevices) ==
    IF handed = <<>> THEN NoFlow(devs)
    ELSE NwipeSelected(devs, handed, st, blockdevices)

\* MainWindow._run_badblocks_destructive: run_badblocks() takes no
\* erase_standard argument, so the first call raises TypeError
BadblocksDestructive(devs, handed) ==
    [NoFlow(devs) EXCEPT !.handed = handed,
                         !.error = <<"TypeError", "run_badblocks() got an unexpected keyword argument 'erase_standard'">>]

\* MainWindow.run_secure_erase, on the erasable devices of the selection
RunSecureEraseFlow(devs, handed, tool, standard, confirm, oks, st, blockdevices) ==
    IF handed = <<>> THEN NoFlow(devs)
    ELSE IF tool = "nwipe" THEN NwipeSelected(devs, handed, st, blockdevices)
    ELSE IF tool = "badblocks" THEN BadblocksDestructive(devs, handed)
    ELSE SecureFlow(devs, handed, standard, confirm, oks, st, blockdevices)

\* one round of the loop of MainWindow.run_badblocks: run_badblocks for dev
BadblocksStep(acc, dev, target, mode, ok) ==
    LET called == [acc EXCEPT
                     !.calls = Append(@, Call("badblocks.resolve_target", dev, target))]
    IN  IF IsRaise(target)
        THEN [called EXCEPT !.error = target]
        ELSE [called EXCEPT
                !.commands = Append(@, Command(
                    IF mode = "destructive" THEN "badblocks -wsv" ELSE "badblocks -sv",
                    target, dev)),
                !.devices = ApplyEraseUpdate(@, dev.device_id, PyBool(ok), FALSE, None),
                !.logged = Append(@, LogEntry(dev, None))]

RECURSIVE BadblocksLoop(_, _, _, _, _, _)
BadblocksLoop(handed, i, mode, oks, blockdevices, acc) ==
    IF i > Len(handed) \/ acc.error # Empty THEN acc
    ELSE BadblocksLoop(handed, i + 1, mode, oks, blockdevices,
            Only({ BadblocksStep(a, handed[i], target, mode, oks[i]) :
                     a \in {acc},
                     target \in {BadblocksResolveTarget(handed[i], blockdevices)} }))

\* MainWindow.run_badblocks: handed is the selection, in destructive mode its
\* erasable devices
BadblocksFlow(devs, handed, mode, confirm, oks, blockdevices) ==
    IF mode = "destructive" /\ ~ confirm THEN NoFlow(devs)
    ELSE IF handed = <<>> THEN NoFlow(devs)
    ELSE BadblocksLoop(handed, 1, mode, oks, blockdevices,
                       [NoFlow(devs) EXCEPT !.handed = handed])

\* one round of the loop of MainWindow._run_fio_for_devices:
\* run_preset_with_result for dev, res what fio_runner.resolve_target gave
FioStep(acc, dev, res, ok) ==
    LET dev_hint == IF Truthy(res.mapping_hint) THEN res.mapping_hint
                    ELSE dev.mapping_hint
        result_hint == IF Truthy(dev_hint) THEN dev_hint ELSE Empty
        called == [acc EXCEPT
                     !.calls = Append(@, Call("fio.resolve_target", dev, res.result)),
                     !.scanned = @ \/ ErasePathScans(dev)]
    IN  IF IsRaise(res.result)
        THEN [called EXCEPT
                !.error = res.result,
                !.devices = ApplyFioUpdate(@, dev.device_id, "False", Empty),
                !.logged = Append(@, LogEntry(dev, Empty))]
        ELSE IF ~ ok
        THEN [called EXCEPT
                !.commands = Append(@, Command("fio", res.result, dev)),
                !.error = Raise("FIO konnte nicht abgeschlossen werden"),
                !.devices = ApplyFioUpdate(@, dev.device_id, "False", result_hint),
                !.logged = Append(@, LogEntry([dev EXCEPT !.mapping_hint = dev_hint],
                                              result_hint))]
        ELSE [called EXCEPT
                !.commands = Append(@, Command("fio", res.result, dev)),
                !.devices = ApplyFioUpdate(@, dev.device_id, "True", result_hint),
                !.logged = Append(@, LogEntry([dev EXCEPT !.mapping_hint = dev_hint],
                                              result_hint))]

RECURSIVE FioLoop(_, _, _, _, _, _)
FioLoop(handed, i, oks, st, blockdevices, acc) ==
    IF i > Len(handed) \/ acc.error # Empty THEN acc
    ELSE FioLoop(handed, i + 1, oks, st, blockdevices,
            Only({ FioStep(a, handed[i], res, oks[i]) :
                     a \in {acc},
                     res \in {FioResolveTarget(handed[i], st, blockdevices)} }))

\* MainWindow._run_fio_for_devices (run_fio and run_fio_stress), on the
\* erasable devices of the selection
FioFlow(devs, handed, oks, st, blockdevices) ==
    IF handed = <<>> THEN NoFlow(devs)
    ELSE FioLoop(handed, 1, oks, st, blockdevices,
                 [NoFlow(devs) EXCEPT !.handed = handed])

(***************************************************************************)
(* The machines the model runs on.                                         *)
(***************************************************************************)
SizeStr(digits, fraction, suffix) == [num |-> <<digits, fraction>>, suffix |-> suffix]
NoSize == [num |-> <<>>, suffix |-> <<>>]

Partition(mountpoints) == [mountpoints |-> mountpoints, children |-> <<>>]

Disk(name, path, tran, size, model, serial, rm, hotplug, children) ==
    [ name |-> name, path |-> path, type |-> "disk", size |-> size, model |-> model,
      serial |-> serial, tran |-> tran, rm |-> rm, hotplug |-> hotplug,
      mountpoints |-> {}, children |-> children ]

\* the system disk, a drive behind the controller that the kernel sees too,
\* and a card reader
KernelPool ==
    << Disk("sda", <<"/dev/", "sd", "a">>, "sata", SizeStr(500, 0, <<"G">>), "SSD860",
            "S0SYS", "false", "false", <<Partition({<<"/">>})>>),
       Disk("sdc", <<"/dev/", "sd", "c">>, "sas", SizeStr(18, 1, <<"T">>), "ST2000",
            "Z1234ABCD", "false", "false", <<>>),
       Disk("mmcblk0", <<"/dev/", "mmcblk", "0">>, "mmc", SizeStr(32, 0, <<"G">>), "SD32G",
            "", "true", "true", <<>>) >>

\* the subsequences of pool with at most n entries
SubSeqsUpTo(pool, n) ==
    { [i \in DOMAIN SortedSeq(S) |-> pool[SortedSeq(S)[i]]] :
        S \in {T \in SUBSET DOMAIN pool : Cardinality(T) <= n} }

KernelInventories == SubSeqsUpTo(KernelPool, MaxDisks)

\* a block of the detail dump
Detail(found, sn, model, inquiry_sn, attributes_sn, text_sn) ==
    [ found |-> found, sn |-> sn, model |-> model, inquiry_sn |-> inquiry_sn,
      inquiry_model |-> "", attributes_sn |-> attributes_sn, attributes_model |-> "",
      text_sn |-> text_sn, hint |-> Empty ]

NoDetail == Detail("none", "", "", "", "", "")

\* a PD LIST entry without serial; detail_serial is the serial its detail
\* dump holds in the "Device attributes" block ("" when the detail calls fail)
PdEntry(eid_slt, size, model, detail_serial, hint) ==
    [ eid_slt |-> eid_slt, size |-> size, intf |-> "SAS", state |-> "JBOD",
      sn |-> "", model |-> model, hint |-> hint,
      detail |-> IF detail_serial # ""
                 THEN Detail("all", "", "", "", detail_serial, "")
                 ELSE NoDetail ]

\* a drive whose detail dump names its serial, a drive known only by a path
\* the controller reports, and a drive the controller tells nothing about
PdPool ==
    << PdEntry("8:2", SizeStr(18, 1, <<" ", "T", "B">>), "ST2000", "Z1234ABCD", Empty),
       PdEntry("8:3", SizeStr(4, 0, <<" ", "T", "B">>), "", "", <<"/dev/", "sd", "b">>),
       PdEntry("8:4", SizeStr(4, 0, <<" ", "T", "B">>), "", "", Empty) >>

Controller(err, pds) == [id |-> "0", err |-> err, pds |-> pds]

\* the drive lists of at most MaxPds drives of the pool
PdLists == SubSeqsUpTo(PdPool, MaxPds)

StorcliAnswers ==
    { [err |-> "storcli-Binary nicht gefunden", ctrls |-> <<>>],
      [err |-> "", ctrls |-> <<>>],
      [err |-> "", ctrls |-> <<Controller("sudo-Authentifizierung fehlgeschlagen", <<>>)>>] }
    \cup { [err |-> "", ctrls |-> <<Controller("", pds)>>] : pds \in PdLists \ {<<>>} }

(***************************************************************************)
(* The resolver harness: one call of _match_linux_device or of a runner's  *)
(* target resolution on inputs drawn from bounded sets.                    *)
(***************************************************************************)
Pending == <<"pending">>

MatchPool ==
    << Disk("sda", <<"/dev/", "sd", "a">>, "sas", SizeStr(1000000000, 0, <<>>), "ST2000",
            "SN123", "false", "false", <<>>),
       Disk("sdb", <<"/dev/", "sd", "b">>, "sas", SizeStr(2000000000, 0, <<>>), "ST2000",
            "SN123", "false", "false", <<>>),
       Disk("sdc", <<"/dev/", "sd", "c">>, "sas", SizeStr(18, 1, <<" ", "T", "B">>), "ST2000",
            "", "false", "false", <<>>),
       Disk("nvme0n1", <<"/dev/", "nvme", "0n1">>, "nvme", SizeStr(18, 1, <<" ", "T", "B">>),
            "ST2000", "OTHER", "false", "false", <<>>),
       Disk("mmcblk0", <<"/dev/", "mmcblk", "0">>, "mmc", SizeStr(18, 1, <<"T">>), "SD32G",
            "SN123", "true", "true", <<>>),
       Disk("sdq", <<"/dev/", "sd", "q">>, "sata", SizeStr(18, 1, <<" ", "T", "B">>), "ST2000",
            "SN123", "false", "false", <<>>) >>

\* the orderings of at most n entries of pool
RECURSIVE Arrangements(_, _)
Arrangements(pool, n) ==
    IF n = 0 THEN {<<>>}
    ELSE LET shorter == Arrangements(pool, n - 1)
         IN  shorter \cup
             { Append(s, pool[i]) : s \in {t \in shorter : Len(t) = n - 1},
                                    i \in DOMAIN pool }

MatchInventories ==
    { s \in Arrangements(MatchPool, MaxMatchDisks) :
        \A i, j \in DOMAIN s : i # j => s[i].name # s[j].name }

\* a controller record as scan_megaraid_devices builds it, with target as
\* MainWindow._reload_devices or a caller may have left it
InfoRecord(serial, model, size, os_path, target) ==
    [ MegaraidRecord("0", [ controller |-> "0", eid_slt |-> "8:2", size |-> size,
                            intf |-> "SAS", model |-> model, serial |-> serial,
                            state |-> "JBOD", os_path |-> os_path ])
      EXCEPT !.target = target ]

InfoSerials == {"SN123", "NOPE", "UNKNOWN", ""}
InfoModels == {"ST2000", ""}
InfoSizes == {SizeStr(18, 1, <<" ", "T", "B">>), SizeStr(1000000000, 0, <<>>), NoSize}
InfoHints == {VirtualPath("0", "8:2"), <<"/dev/", "sd", "q">>, <<"/dev/", "disk/by-id/", "x">>,
              <<"pci-0000", ":", "03">>, Empty}
InfoTargets == {None, <<"/dev/", "sd", "z">>}

ControllerInfos ==
    { InfoRecord(serial, model, size, os_path, target) :
        serial \in InfoSerials, model \in InfoModels, size \in InfoSizes,
        os_path \in InfoHints, target \in InfoTargets }

\* a kernel record as scan_linux_disks builds it and _reload_devices fills it
KernelInfos ==
    { [LinuxRecord(MatchPool[i]) EXCEPT !.target = MatchPool[i].path] : i \in DOMAIN MatchPool }

HarnessStorcli ==
    { [err |-> "storcli-Binary nicht gefunden", ctrls |-> <<>>],
      [err |-> "", ctrls |-> <<Controller("", <<PdPool[1]>>)>>] }

\* config_manager.DEFAULT_CONFIG
DefaultConfig == [default_badblocks_mode |-> "read-only"]
ShowSystemDisks == FALSE

IdleOp ==
    [flow |-> "idle", selected |-> <<>>, handed |-> <<>>, calls |-> <<>>,
     commands |-> <<>>, error |-> Empty, logged |-> <<>>, exits |-> <<>>,
     jbod |-> <<>>]

ResolverInit ==
    /\ lsblk \in MatchInventories
    /\ lsblk_run = "ok"
    /\ storcli \in HarnessStorcli
    /\ target_info \in ControllerInfos \cup KernelInfos
    /\ resolved = Pending
    /\ devices = <<>>
    /\ last_warning = NoWarning
    /\ expert_enabled = FALSE
    /\ config = DefaultConfig
    /\ op = IdleOp
    /\ steps = 0

\* device_scan._match_linux_device(target_info, scan_linux_disks())
CallMatchLinuxDevice ==
    /\ resolved = Pending
    /\ resolved' = <<"match", MatchLinuxDevice(target_info, ScanLinuxDisks(lsblk))>>
    /\ UNCHANGED <<lsblk, storcli, devices, last_warning, expert_enabled, config, op,
                   steps, target_info, lsblk_run>>

\* secure_erase.resolve_erase_target(target_info)
CallResolveEraseTarget ==
    /\ resolved = Pending
    /\ resolved' = <<"erase", ResolveEraseTarget(target_info, storcli, lsblk)>>
    /\ last_warning' = IF ErasePathScans(target_info)
                       THEN ScanMegaraidDevices(storcli, lsblk, last_warning).warning
                       ELSE last_warning
    /\ UNCHANGED <<lsblk, storcli, devices, expert_enabled, config, op, steps,
                   target_info, lsblk_run>>

\* fio_runner.resolve_target(target_info)
CallFioResolveTarget ==
    /\ resolved = Pending
    /\ resolved' = <<"fio", FioResolveTarget(target_info, storcli, lsblk).result>>
    /\ last_warning' = IF ErasePathScans(target_info)
                       THEN ScanMegaraidDevices(storcli, lsblk, last_warning).warning
                       ELSE last_warning
    /\ UNCHANGED <<lsblk, storcli, devices, expert_enabled, config, op, steps,
                   target_info, lsblk_run>>

\* badblocks_runner.resolve_target(target_info)
CallBadblocksResolveTarget ==
    /\ resolved = Pending
    /\ resolved' = <<"badblocks", BadblocksResolveTarget(target_info, lsblk)>>
    /\ UNCHANGED <<lsblk, storcli, devices, last_warning, expert_enabled, config, op,
                   steps, target_info, lsblk_run>>

\* device_scan.scan_megaraid_devices(), between two calls of the resolver
CallScanMegaraidDevices ==
    /\ resolved # Pending /\ resolved[1] = "match" /\ Len(resolved) = 2
    /\ last_warning' = ScanMegaraidDevices(storcli, lsblk, last_warning).warning
    /\ last_warning' # last_warning
    /\ UNCHANGED <<lsblk, storcli, devices, expert_enabled, config, op, steps,
                   target_info, lsblk_run, resolved>>

\* device_scan._match_linux_device, called again on the same arguments
CallMatchLinuxDeviceAgain ==
    /\ resolved # Pending /\ resolved[1] = "match" /\ Len(resolved) = 2
    /\ resolved' = Append(resolved, MatchLinuxDevice(target_info, ScanLinuxDisks(lsblk)))
    /\ UNCHANGED <<lsblk, storcli, devices, last_warning, expert_enabled, config, op,
                   steps, target_info, lsblk_run>>

ResolverNext ==
    \/ CallMatchLinuxDevice
    \/ CallResolveEraseTarget
    \/ CallFioResolveTarget
    \/ CallBadblocksResolveTarget
    \/ CallScanMegaraidDevices
    \/ CallMatchLinuxDeviceAgain

ResolverSpec == ResolverInit /\ [][ResolverNext]_vars

(***************************************************************************)
(* The scan harness: one call of scan_linux_disks, scan_all_devices or     *)
(* the mountpoint test, on a run of lsblk and controller answers drawn     *)
(* from bounded sets.                                                      *)
(***************************************************************************)
ScanTransports == {"sata", "ata", "sas", "nvme", "usb", ""}
\* the removable flag as the string "0", the number 0 and the booleans
ScanRemovable == {"\"0\"", "0", "false", "true"}
ScanHotplug == {"false", "true"}

\* where the mountpoints of a disk sit: none, / on a partition, /boot/efi
\* two levels down, /mnt/data on the disk itself, swap, /home/user on the
\* second partition
ScanLayouts ==
    { [mountpoints |-> {}, children |-> <<>>],
      [mountpoints |-> {}, children |-> <<Partition({<<"/">>})>>],
      [mountpoints |-> {},
       children |-> <<[mountpoints |-> {},
                       children |-> <<Partition({<<"/", "boot", "/", "efi">>})>>]>>],
      [mountpoints |-> {<<"/", "mnt", "/", "data">>}, children |-> <<>>],
      [mountpoints |-> {}, children |-> <<Partition({<<"[SWAP]">>})>>],
      [mountpoints |-> {},
       children |-> <<Partition({}), Partition({<<"/", "home", "/", "user">>})>>] }

ScanDisks ==
    { [Disk("sdx", <<"/dev/", "sd", "x">>, tran, SizeStr(4, 0, <<"T">>), "ST4000",
            "S4X", rm, hotplug, layout.children)
          EXCEPT !.mountpoints = layout.mountpoints] :
        tran \in ScanTransports, rm \in ScanRemovable, hotplug \in ScanHotplug,
        layout \in ScanLayouts }

ScanInventories == {<<>>} \cup {<<disk>> : disk \in ScanDisks}

PdEntryWith(eid_slt, sn, model, detail) ==
    [ eid_slt |-> eid_slt, size |-> SizeStr(4, 0, <<" ", "T", "B">>), intf |-> "SAS",
      state |-> "JBOD", sn |-> sn, model |-> model, hint |-> Empty, detail |-> detail ]

\* drives whose summary entry and detail dump name the identity in
\* different places
ScanPdPool ==
    << PdPool[1],
       PdEntryWith("8:5", "S5SUM", "ST2000", Detail("all", "S5DET", "ST2000X", "", "", "")),
       PdEntryWith("8:6", "S6SUM", "", Detail("single", "", "", "", "", "S6TXT")),
       PdEntryWith("8:7", "", "", Detail("all", "", "", "S7INQ", "S7ATT", "S7TXT")),
       PdPool[3] >>

\* a drive that reports the serial of the kernel disk, and a drive without
\* serial whose model and size read as the kernel disk's
TwinEntry(eid_slt) == PdEntryWith(eid_slt, "S4X", "ST4000", NoDetail)
BlankEntry(eid_slt) ==
    [PdEntryWith(eid_slt, "", "ST4000", NoDetail) EXCEPT !.size = SizeStr(4, 0, <<"T">>)]

ControllerAt(id, err, pds) == [id |-> id, err |-> err, pds |-> pds]

ScanStorcli ==
    { [err |-> "storcli-Binary nicht gefunden", ctrls |-> <<>>],
      [err |-> "", ctrls |-> <<>>],
      [err |-> "", ctrls |-> <<ControllerAt("0", "", <<ScanPdPool[1], ScanPdPool[2]>>),
                               ControllerAt("1", "", <<ScanPdPool[3]>>)>>],
      [err |-> "", ctrls |-> <<ControllerAt("0", "sudo-Authentifizierung fehlgeschlagen", <<>>),
                               ControllerAt("1", "", <<ScanPdPool[2], ScanPdPool[4]>>)>>],
      [err |-> "", ctrls |-> <<ControllerAt("0", "", <<ScanPdPool[1]>>),
                               ControllerAt("1", "StorCLI fehlgeschlagen: timeout", <<>>)>>],
      [err |-> "", ctrls |-> <<ControllerAt("0", "", <<ScanPdPool[5], ScanPdPool[3]>>)>>],
      [err |-> "", ctrls |-> <<ControllerAt("0", "", <<TwinEntry("8:8"), TwinEntry("8:9")>>)>>],
      [err |-> "", ctrls |-> <<ControllerAt("0", "", <<BlankEntry("8:8")>>),
                               ControllerAt("1", "", <<BlankEntry("8:8")>>)>>] }

ScanInit ==
    /\ lsblk_run \in LsblkRuns
    /\ lsblk \in ScanInventories
    /\ lsblk_run # "ok" => lsblk = <<>>
    /\ storcli \in ScanStorcli
    /\ target_info = None
    /\ resolved = Pending
    /\ devices = <<>>
    /\ last_warning = NoWarning
    /\ expert_enabled = FALSE
    /\ config = DefaultConfig
    /\ op = IdleOp
    /\ steps = 0

\* device_scan.scan_linux_disks()
CallScanLinuxDisks ==
    /\ resolved = Pending
    /\ resolved' = <<"scan_linux_disks", ScanLinuxDisksRun(lsblk_run, lsblk)>>
    /\ UNCHANGED <<lsblk, lsblk_run, storcli, devices, last_warning, expert_enabled,
                   config, op, steps, target_info>>

\* device_scan.scan_all_devices(show_system_disks)
CallScanAllDevices ==
    /\ resolved = Pending
    /\ \E show_system_disks \in BOOLEAN :
        \E r \in {ScanAllDevicesRun(show_system_disks, lsblk_run, storcli, lsblk,
                                     last_warning)} :
            /\ resolved' = <<"scan_all_devices", show_system_disks, r>>
            /\ last_warning' = r.warning
    /\ UNCHANGED <<lsblk, lsblk_run, storcli, devices, expert_enabled, config, op,
                   steps, target_info>>

\* device_scan._is_system_mountpoint(_collect_mountpoints(dev))
CallIsSystemMountpoint ==
    /\ resolved = Pending
    /\ lsblk_run = "ok" /\ lsblk # <<>>
    /\ resolved' = <<"is_system_mountpoint",
                     IsSystemMountpoint(CollectMountpoints(lsblk[1]))>>
    /\ UNCHANGED <<lsblk, lsblk_run, storcli, devices, last_warning, expert_enabled,
                   config, op, steps, target_info>>

\* MainWindow._reload_devices() on an empty device list
CallReloadDevices ==
    /\ resolved = Pending
    /\ lsblk_run = "ok"
    /\ \E r \in {ReloadDevices(ShowSystemDisks \/ expert_enabled, storcli, lsblk, devices,
                                last_warning)} :
        /\ resolved' = <<"reload_devices", r.warning>>
        /\ devices' = r.devices
        /\ last_warning' = r.warning
    /\ UNCHANGED <<lsblk, lsblk_run, storcli, expert_enabled, config, op, steps,
                   target_info>>

ScanNext ==
    \/ CallScanLinuxDisks
    \/ CallScanAllDevices
    \/ CallReloadDevices
    \/ CallIsSystemMountpoint

ScanSpec == ScanInit /\ [][ScanNext]_vars

(***************************************************************************)
(* raid_storcli._run_storcli_json and set_all_drives_to_jbod.  A run of    *)
(* the controller tool is [pw, returncode, stderr, stdout]: pw whether a   *)
(* sudo password is configured, stderr and stdout the texts printed, as    *)
(* sequences of phrases.  A call yields the message of the RuntimeError    *)
(* it raises, "" when it returns.                                          *)
(***************************************************************************)
\* str.lower() on a phrase
Lower(phrase) ==
    IF phrase = "Command Invalid" THEN "command invalid"
    ELSE IF phrase = "Authentication failed" THEN "authentication failed"
    ELSE IF phrase = "No such file" THEN "no such file"
    ELSE IF phrase = "Controller 0 not present" THEN "controller 0 not present"
    ELSE IF phrase = "Set Drive JBOD Failed" THEN "set drive jbod failed"
    ELSE phrase
LowerText(text) == [i \in DOMAIN text |-> Lower(text[i])]
\* phrase in text
Contains(text, phrase) == \E i \in DOMAIN text : text[i] = phrase

Whitespace == {"\n", " "}
RECURSIVE LStripText(_)
LStripText(text) ==
    IF text # <<>> /\ Head(text) \in Whitespace THEN LStripText(Tail(text)) ELSE text
RECURSIVE RStripText(_)
RStripText(text) ==
    IF text # <<>> /\ text[Len(text)] \in Whitespace
    THEN RStripText(SubSeq(text, 1, Len(text) - 1))
    ELSE text
\* str.strip()
StripText(text) == RStripText(LStripText(text))
RECURSIVE Join(_)
Join(text) == IF text = <<>> THEN "" ELSE Head(text) \o Join(Tail(text))

\* the JSON document the tool prints about a command that failed
JsonOpen == "{\"Controllers\":[{\"Response Data\":{\"Description\":\""
JsonMiddle == "\",\"ErrMsg\":\""
JsonClose == "\"}}]}"
StdoutJson(description, err_msg) ==
    <<JsonOpen, description, JsonMiddle, err_msg, JsonClose>>
\* json.loads(stdout or "{}") inside the try block: {} when stdout is no JSON
ParseJson(stdout) ==
    IF Len(stdout) = 5 /\ stdout[1] = JsonOpen /\ stdout[3] = JsonMiddle
                       /\ stdout[5] = JsonClose
    THEN [description |-> stdout[2], err_msg |-> stdout[4]]
    ELSE [description |-> "", err_msg |-> ""]

\* _is_jbod_command_invalid
IsJbodCommandInvalid(data) ==
    data.description = "Set Drive JBOD Failed" /\ Lower(data.err_msg) = "command invalid"

\* a variant of the classification that looks for the missing binary first
\* and takes every other diagnostic for an unsupported command
ClassifyNotFoundFirst(stderr, data) ==
    IF Contains(stderr, "command not found") \/ Contains(stderr, "No such file")
    THEN "storcli-Binary nicht gefunden"
    ELSE IF Contains(stderr, "Authentication failed")
    THEN "sudo-Authentifizierung fehlgeschlagen"
    ELSE "storcli-jbod-unsupported"

\* the classification of a non-zero exit, stderr being the stripped diagnostic
ClassifyExit(stderr, data) ==
    IF Contains(LowerText(stderr), "command invalid") \/ IsJbodCommandInvalid(data)
    THEN "storcli-jbod-unsupported"
    ELSE IF Contains(stderr, "Authentication failed")
    THEN "sudo-Authentifizierung fehlgeschlagen"
    ELSE IF Contains(stderr, "command not found") \/ Contains(stderr, "No such file")
    THEN "storcli-Binary nicht gefunden"
    ELSE "StorCLI fehlgeschlagen: " \o Join(stderr)

\* _run_storcli_json
RunStorcliJson(run) ==
    IF ~ run.pw THEN "sudo-Passwort nicht konfiguriert"
    ELSE IF run.returncode # 0
    THEN ClassifyExit(StripText(IF run.stderr # <<>> THEN run.stderr ELSE run.stdout),
                      ParseJson(run.stdout))
    ELSE IF run.stdout = <<>> \/ ParseJson(run.stdout).description # "" THEN ""
    ELSE "JSONDecodeError"

\* set_all_drives_to_jbod(): listing is what list_controllers raises, outcomes
\* what the set-jbod command of each controller raises; [issued, logged,
\* raised], the controllers the command went to, those logged as unsupported
\* and the exception that leaves the call
RECURSIVE JbodLoop(_, _, _)
JbodLoop(controllers, outcomes, acc) ==
    IF controllers = <<>> THEN acc
    ELSE LET issued == [acc EXCEPT !.issued = Append(@, Head(controllers))]
         IN  IF Head(outcomes) = "" THEN JbodLoop(Tail(controllers), Tail(outcomes), issued)
             ELSE IF Head(outcomes) = "storcli-jbod-unsupported"
             THEN JbodLoop(Tail(controllers), Tail(outcomes),
                           [issued EXCEPT !.logged = Append(@, Head(controllers))])
             ELSE [issued EXCEPT !.raised = Head(outcomes)]

SetAllDrivesToJbod(listing, controllers, outcomes) ==
    IF listing # "" THEN [issued |-> <<>>, logged |-> <<>>, raised |-> listing]
    ELSE JbodLoop(controllers, outcomes, [issued |-> <<>>, logged |-> <<>>, raised |-> ""])

(***************************************************************************)
(* The tool harness: one run of the controller tool, classified by        *)
(* _run_storcli_json, met by set_all_drives_to_jbod on one of two          *)
(* controllers, or met by scan_megaraid_devices in the drive listing of    *)
(* controller 0.                                                           *)
(***************************************************************************)
ToolPhrases ==
    {"command invalid", "Command Invalid", "Authentication failed", "command not found",
     "No such file", "Controller 0 not present", "\n"}
MaxPhrases == 2     \* phrases of one text the controller tool prints
ToolTexts == UNION {[1..n -> ToolPhrases] : n \in 0..MaxPhrases}
ToolStdouts ==
    { <<>>,
      StdoutJson("Set Drive JBOD Failed", "command invalid"),
      StdoutJson("Set Drive JBOD Failed", "Drive is not in a state to be set as JBOD"),
      StdoutJson("None", ""),
      <<"storcli: ", "No such file", "\n">> }
ToolRuns ==
    [pw : BOOLEAN, returncode : {0, 1}, stderr : ToolTexts, stdout : ToolStdouts]

\* what the controller tool answers when the drive listing of controller 0
\* ends as run does
AnswerWith(run) ==
    Only({ [err |-> "",
            ctrls |-> <<ControllerAt("0", message,
                                     IF message = "" THEN <<ScanPdPool[2]>> ELSE <<>>),
                        ControllerAt("1", "", <<ScanPdPool[5]>>)>>] :
             message \in {RunStorcliJson(run)} })

ToolInit ==
    /\ target_info \in ToolRuns
    /\ storcli = AnswerWith(target_info)
    /\ lsblk = <<>>
    /\ lsblk_run = "ok"
    /\ resolved = Pending
    /\ devices = <<>>
    /\ last_warning = NoWarning
    /\ expert_enabled = FALSE
    /\ config = DefaultConfig
    /\ op = IdleOp
    /\ steps = 0

\* raid_storcli._run_storcli_json(args)
CallRunStorcliJson ==
    /\ resolved = Pending
    /\ resolved' = <<"run_storcli_json", RunStorcliJson(target_info)>>
    /\ UNCHANGED <<lsblk, lsblk_run, storcli, devices, last_warning, expert_enabled,
                   config, op, steps, target_info>>

\* raid_storcli.set_all_drives_to_jbod() with the run on one controller
CallSetAllDrivesToJbod ==
    /\ resolved = Pending
    /\ \E at \in 1..2 :
        \E message \in {RunStorcliJson(target_info)} :
            resolved' = <<"set_all_drives_to_jbod", at,
                          SetAllDrivesToJbod("", <<"0", "1">>,
                                             [i \in 1..2 |-> IF i = at THEN message ELSE ""])>>
    /\ UNCHANGED <<lsblk, lsblk_run, storcli, devices, last_warning, expert_enabled,
                   config, op, steps, target_info>>

\* device_scan.scan_megaraid_devices() with the run in a drive listing
CallScanWithToolRun ==
    /\ resolved = Pending
    /\ \E r \in {ScanMegaraidDevices(storcli, lsblk, last_warning)} :
        /\ resolved' = <<"scan_megaraid_devices", r>>
        /\ last_warning' = r.warning
    /\ UNCHANGED <<lsblk, lsblk_run, storcli, devices, expert_enabled, config, op,
                   steps, target_info>>

ToolNext ==
    \/ CallRunStorcliJson
    \/ CallSetAllDrivesToJbod
    \/ CallScanWithToolRun

ToolSpec == ToolInit /\ [][ToolNext]_vars

(***************************************************************************)
(* raid_storcli._collect_pd_details and _get_pd_details on the nested      *)
(* blocks of a detail dump.  A block is [key, listed, eid_slt, sn, model,  *)
(* text_sn, blocks]: key is [slot, name], the enclosure:slot that          *)
(* /e(\d+)/s(\d+) finds in the key under which the block sits ("" when it  *)
(* finds none) and the rest of the key; listed tells that the block is the *)
(* item of a list under that key; eid_slt is its "EID:Slt" field, sn and   *)
(* model its direct fields, text_sn the serial the regular expression      *)
(* finds in its string values, blocks its nested blocks in the order of    *)
(* the dictionary, the strings coming first.  The dump names no kernel     *)
(* path, so that the path of every drive is the synthetic one and udev     *)
(* knows nothing about it.                                                 *)
(***************************************************************************)
Block(slot, name, listed, eid_slt, sn, model, text_sn, blocks) ==
    [ key |-> [slot |-> slot, name |-> name], listed |-> listed, eid_slt |-> eid_slt,
      sn |-> sn, model |-> model, text_sn |-> text_sn, blocks |-> blocks ]

FirstTruthy(values) ==
    LET hits == SelectSeq(values, LAMBDA v : v # "")
    IN  IF hits = <<>> THEN "" ELSE hits[1]

\* _deep_regex_search: the first hit in the strings of the block and of the
\* blocks below it
RECURSIVE DeepRegexSearch(_)
DeepRegexSearch(obj) ==
    IF obj.text_sn # "" THEN obj.text_sn
    ELSE FirstTruthy([i \in DOMAIN obj.blocks |-> DeepRegexSearch(obj.blocks[i])])

\* _extract_serial_and_model on a block of the dump: the direct field, the
\* "Inquiry Data" block, the "Device attributes" blocks, then the regular
\* expression when one is given
ExtractSerial(value, regex_fallback) ==
    LET inquiry == SelectSeq(value.blocks, LAMBDA b : b.key.name = "Inquiry Data")
        attributes == SelectSeq(value.blocks, LAMBDA b : b.key.name = "Device attributes")
        serial1 == value.sn
        serial2 == IF serial1 = "" /\ inquiry # <<>> THEN inquiry[1].sn ELSE serial1
        serial3 == IF serial2 = ""
                   THEN FirstTruthy([i \in DOMAIN attributes |-> attributes[i].sn])
                   ELSE serial2
    IN  IF serial3 = "" /\ regex_fallback THEN DeepRegexSearch(value) ELSE serial3

\* _parse_eid_slot, else the enclosure:slot of the key
BlockSlot(value) == IF value.eid_slt # "" THEN value.eid_slt ELSE value.key.slot

\* _store_detail: the first non-empty value stored for an enclosure:slot stays
StoreDetail(details, slot, serial, model) ==
    IF slot = "" THEN details
    ELSE [details EXCEPT ![slot] =
             [serial |-> IF serial # "" /\ details[slot].serial = ""
                         THEN serial ELSE details[slot].serial,
              model |-> IF model # "" /\ details[slot].model = ""
                        THEN model ELSE details[slot].model]]

\* _scan: a block is stored, then the blocks below it are scanned, then the
\* blocks after it
RECURSIVE ScanBlocks(_, _)
ScanBlocks(values, details) ==
    IF values = <<>> THEN details
    ELSE LET value == Head(values)
             serial == StrOr(ExtractSerial(value, TRUE), value.text_sn)
         IN  ScanBlocks(Tail(values),
                        ScanBlocks(value.blocks,
                                   StoreDetail(details, BlockSlot(value), serial,
                                               value.model)))

DumpSlots == {"8:2", "8:3"}

\* _collect_pd_details: [serial, model] by enclosure:slot, both "" for a
\* drive the dump stores nothing about
CollectPdDetails(resp) ==
    ScanBlocks(resp, [slot \in DumpSlots |-> [serial |-> "", model |-> ""]])

\* _get_pd_details: the first dictionary of the answer, read without the
\* regular expression
GetPdDetails(resp) ==
    LET dicts == SelectSeq(resp, LAMBDA value : ~ value.listed)
    IN  IF dicts = <<>> THEN [serial |-> "", model |-> ""]
        ELSE [serial |-> ExtractSerial(dicts[1], FALSE), model |-> dicts[1].model]

(***************************************************************************)
(* The dump harness: one call of _collect_pd_details or _get_pd_details on *)
(* a dump of the drive in enclosure 8, slot 2: its summary entry, whose    *)
(* model string may look like a serial to the regular expression, and its  *)
(* detailed block with a state block and a "Device attributes" block,      *)
(* in either order, the detailed block possibly one level further down.    *)
(***************************************************************************)
SummaryBlock(text_sn) == Block("8:2", "Drive", TRUE, "8:2", "", "ST2000", text_sn, <<>>)

StateBlock(text_sn) == Block("8:2", "State", FALSE, "", "", "", text_sn, <<>>)

AttributesBlock(sn) == Block("8:2", "Device attributes", FALSE, "", sn, "", "", <<>>)

DetailedBlock(sn, text_sn, attributes_sn) ==
    Block("8:2", "Detailed Information", FALSE, "", sn, "", "",
          <<StateBlock(text_sn), AttributesBlock(attributes_sn)>>)

Wrapped(value) == Block("8:2", "Drive", FALSE, "", "", "", "", <<value>>)

DetailedBlocks ==
    { DetailedBlock(sn, text_sn, attributes_sn) :
        sn \in {"", "S2DIR"}, text_sn \in {"", "R2TXT"}, attributes_sn \in {"", "S2ATT"} }

Dumps ==
    LET summaries == {SummaryBlock(text_sn) : text_sn \in {"", "V2S1000G"}}
        detailed == DetailedBlocks \cup {Wrapped(value) : value \in DetailedBlocks}
    IN  {<<s>> : s \in summaries} \cup {<<d>> : d \in detailed}
        \cup {<<s, d>> : s \in summaries, d \in detailed}
        \cup {<<d, s>> : s \in summaries, d \in detailed}

DumpInit ==
    /\ target_info \in Dumps
    /\ storcli = [err |-> "", ctrls |-> <<>>]
    /\ lsblk = <<>>
    /\ lsblk_run = "ok"
    /\ resolved = Pending
    /\ devices = <<>>
    /\ last_warning = NoWarning
    /\ expert_enabled = FALSE
    /\ config = DefaultConfig
    /\ op = IdleOp
    /\ steps = 0

\* raid_storcli._collect_pd_details(controller_id)
CallCollectPdDetails ==
    /\ resolved = Pending
    /\ resolved' = <<"collect_pd_details", CollectPdDetails(target_info)>>
    /\ UNCHANGED <<lsblk, lsblk_run, storcli, devices, last_warning, expert_enabled,
                   config, op, steps, target_info>>

\* raid_storcli._get_pd_details(controller_id, eid, slot)
CallGetPdDetails ==
    /\ resolved = Pending
    /\ resolved' = <<"get_pd_details", GetPdDetails(target_info)>>
    /\ UNCHANGED <<lsblk, lsblk_run, storcli, devices, last_warning, expert_enabled,
                   config, op, steps, target_info>>

DumpNext ==
    \/ CallCollectPdDetails
    \/ CallGetPdDetails

DumpSpec == DumpInit /\ [][DumpNext]_vars

(***************************************************************************)
(* The engine harness: two callers of device_scan, each making one call   *)
(* of scan_megaraid_devices or resolve_megaraid_target, or the calls of    *)
(* one MainWindow._reload_devices (the inventory scan, then one            *)
(* resolve_megaraid_target for every controller drive listed), and then    *)
(* reading get_last_warning().  The calls interleave at the writes of the  *)
(* module global _last_warning; between calls the controller tool may      *)
(* start to answer differently.  resolved is <<"engine", callers>>, a      *)
(* caller being [fn, pc, i, had_warning, devices, result, diagnostic,      *)
(* alone, scanned, inventory, met_error, k]: the call, its position, the   *)
(* locals of scan_megaraid_devices, what the call returned, what           *)
(* get_last_warning() returned afterwards, what the same call gives when   *)
(* it runs with no other call around, and for a reload whether its         *)
(* inventory scan is done, the drives it listed, whether it met a          *)
(* controller error and the drive resolved next.                           *)
(***************************************************************************)
Callers == 1..2
EngineCalls == {"scan_megaraid_devices", "resolve_megaraid_target"}
WindowCalls == {"reload_devices"}
MaxToolChanges == 1 \* times the controller tool changes its answers

EngineStorcli ==
    { [err |-> "", ctrls |-> <<ControllerAt("0", "", <<PdPool[1]>>),
                               ControllerAt("1", "", <<PdPool[3]>>)>>],
      [err |-> "", ctrls |-> <<ControllerAt("0", "sudo-Authentifizierung fehlgeschlagen", <<>>),
                               ControllerAt("1", "StorCLI fehlgeschlagen: timeout", <<>>)>>],
      [err |-> "", ctrls |-> <<ControllerAt("0", "", <<PdPool[1]>>),
                               ControllerAt("1", "StorCLI fehlgeschlagen: timeout", <<>>)>>],
      [err |-> "storcli-Binary nicht gefunden", ctrls |-> <<>>] }

\* the record of drive 8:2 of controller 0 that the callers resolve
EngineDevice == MegaraidRecord("0", PhysicalDrive("0", PdPool[1], <<>>))

IdleCaller ==
    [fn |-> "", pc |-> "idle", i |-> 1, had_warning |-> FALSE, devices |-> <<>>,
     result |-> None, diagnostic |-> None, alone |-> None,
     scanned |-> FALSE, inventory |-> <<>>, met_error |-> FALSE, k |-> 1]

EngineInit ==
    /\ storcli \in EngineStorcli
    /\ lsblk = <<KernelPool[2]>>
    /\ lsblk_run = "ok"
    /\ target_info = EngineDevice
    /\ resolved = <<"engine", [c \in Callers |-> IdleCaller]>>
    /\ devices = <<>>
    /\ last_warning = NoWarning
    /\ expert_enabled = FALSE
    /\ config = DefaultConfig
    /\ op = IdleOp
    /\ steps = 0

\* what the call of caller c returns
Returned(c, megaraid_devices) ==
    IF c.fn = "scan_megaraid_devices" THEN megaraid_devices
    ELSE MatchLinuxDevice(TargetInfo(target_info, target_info.path, megaraid_devices),
                          ScanLinuxDisks(lsblk))

\* the caller r at the end of a pass of scan_megaraid_devices: an engine call
\* returns; a reload goes on to resolve the next drive of its inventory
EndOfScan(r) ==
    IF r.fn \in EngineCalls
    THEN [r EXCEPT !.pc = "returned", !.result = Returned(r, r.devices)]
    ELSE LET inventory == IF r.scanned THEN r.inventory ELSE r.devices
             k == IF r.scanned THEN r.k + 1 ELSE 1
         IN  [r EXCEPT !.scanned = TRUE,
                       !.inventory = inventory,
                       !.met_error = IF r.scanned THEN @ ELSE r.had_warning,
                       !.k = k,
                       !.pc = IF k > Len(inventory) THEN "returned" ELSE "resolving"]

\* the caller enters scan_megaraid_devices, directly, through
\* resolve_megaraid_target or as the inventory scan of a reload
BeginCall(c) ==
    /\ resolved[2][c].pc = "idle"
    /\ \E fn \in EngineCalls \cup WindowCalls :
        \E r \in {ScanMegaraidDevices(storcli, lsblk, last_warning)} :
            resolved' = <<"engine",
                [resolved[2] EXCEPT ![c] =
                    [@ EXCEPT !.fn = fn, !.pc = "controllers",
                              !.alone = [devices |-> r.devices, warning |-> r.warning]]]>>
    /\ UNCHANGED <<lsblk, lsblk_run, storcli, devices, last_warning, expert_enabled,
                   config, op, steps, target_info>>

\* raid_storcli.list_controllers() and the except branch around it
ListControllers(c) ==
    /\ resolved[2][c].pc = "controllers"
    /\ IF storcli.err # ""
       THEN /\ last_warning' = HandleStorcliError(storcli.err, "Controller")
            /\ resolved' = <<"engine",
                   [resolved[2] EXCEPT ![c] =
                       EndOfScan([@ EXCEPT !.had_warning = TRUE, !.devices = <<>>])]>>
       ELSE /\ last_warning' = last_warning
            /\ resolved' = <<"engine",
                   [resolved[2] EXCEPT ![c] = [@ EXCEPT !.pc = "drives", !.i = 1]]>>
    /\ UNCHANGED <<lsblk, lsblk_run, storcli, devices, expert_enabled, config, op,
                   steps, target_info>>

\* one round of the loop over the controllers
ListDrives(c) ==
    /\ resolved[2][c].pc = "drives"
    /\ resolved[2][c].i <= Len(storcli.ctrls)
    /\ \E acc \in {MegaraidLoop(<<storcli.ctrls[resolved[2][c].i]>>, lsblk,
                                 [devices |-> resolved[2][c].devices,
                                  had_warning |-> resolved[2][c].had_warning,
                                  warning |-> last_warning])} :
        /\ last_warning' = acc.warning
        /\ resolved' = <<"engine",
               [resolved[2] EXCEPT ![c] =
                   [@ EXCEPT !.i = @ + 1, !.devices = acc.devices,
                             !.had_warning = acc.had_warning]]>>
    /\ UNCHANGED <<lsblk, lsblk_run, storcli, devices, expert_enabled, config, op,
                   steps, target_info>>

\* the end of scan_megaraid_devices, and of resolve_megaraid_target after it
FinishCall(c) ==
    /\ resolved[2][c].pc = "drives"
    /\ resolved[2][c].i > Len(storcli.ctrls)
    /\ last_warning' = IF ~ resolved[2][c].had_warning THEN NoWarning ELSE last_warning
    /\ resolved' = <<"engine", [resolved[2] EXCEPT ![c] = EndOfScan(@)]>>
    /\ UNCHANGED <<lsblk, lsblk_run, storcli, devices, expert_enabled, config, op,
                   steps, target_info>>

\* MainWindow._reload_devices calls resolve_megaraid_target for the next
\* controller drive of its inventory
ResolveNext(c) ==
    /\ resolved[2][c].pc = "resolving"
    /\ resolved' = <<"engine",
           [resolved[2] EXCEPT ![c] =
               [@ EXCEPT !.pc = "controllers", !.i = 1, !.had_warning = FALSE,
                         !.devices = <<>>]]>>
    /\ UNCHANGED <<lsblk, lsblk_run, storcli, devices, last_warning, expert_enabled,
                   config, op, steps, target_info>>

\* device_scan.get_last_warning() by the caller after its call
GetLastWarning(c) ==
    /\ resolved[2][c].pc = "returned"
    /\ resolved' = <<"engine",
           [resolved[2] EXCEPT ![c] = [@ EXCEPT !.pc = "read", !.diagnostic = last_warning]]>>
    /\ UNCHANGED <<lsblk, lsblk_run, storcli, devices, last_warning, expert_enabled,
                   config, op, steps, target_info>>

\* the controller tool answers differently from now on; no call is under way
ToolChanges ==
    /\ steps < MaxToolChanges
    /\ \A c \in Callers : resolved[2][c].pc \in {"idle", "resolving", "returned", "read"}
    /\ \E answer \in EngineStorcli \ {storcli} : storcli' = answer
    /\ steps' = steps + 1
    /\ UNCHANGED <<lsblk, lsblk_run, devices, last_warning, expert_enabled, config, op,
                   target_info, resolved>>

EngineNext ==
    \/ \E c \in Callers : BeginCall(c)
    \/ \E c \in Callers : ListControllers(c)
    \/ \E c \in Callers : ListDrives(c)
    \/ \E c \in Callers : FinishCall(c)
    \/ \E c \in Callers : ResolveNext(c)
    \/ \E c \in Callers : GetLastWarning(c)
    \/ ToolChanges

EngineSpec == EngineInit /\ [][EngineNext]_vars

(***************************************************************************)
(* The program: the main window with its device list, the operator's       *)
(* actions, and the machine changing underneath (disks plugged and         *)
(* pulled, the controller tool answering differently).  The drives of the  *)
(* pool are in JBOD state, so the set_all_drives_to_jbod call that goes    *)
(* before a reload leaves the controller's answers as they are; op.jbod    *)
(* holds the controllers that the last handler issued the command to.      *)
(***************************************************************************)
EXPERT_PIN == "1969"
Pins == {"1969", "0000"}
Tools == {"secure", "nwipe", "badblocks"}
Standards == {"zero-fill", "secure-erase"}
BadblocksModes == {"read-only", "destructive"}

\* MainWindow._validate_tool_standard
ValidToolStandard(tool, standard) ==
    \/ tool = "nwipe" /\ standard \in {"zero-fill", "dod-3pass", "dod-7pass"}
    \/ tool = "secure" /\ standard \in {"secure-erase", "secure-erase-enhanced", "zero-fill"}
    \/ tool = "badblocks" /\ standard = "zero-fill"

\* config_manager.load_config: the defaults, or what an earlier run saved
Configs == {[DefaultConfig EXCEPT !.default_badblocks_mode = mode] : mode \in BadblocksModes}

Selections == {S \in SUBSET DOMAIN devices : S # {} /\ Cardinality(S) <= MaxSelected}
\* the exit status of the commands run for each of n devices
Outcomes(n) == [1..n -> BOOLEAN]
\* the operator's answer to a confirmation dialog, when one is shown
Answers(asked) == IF asked THEN BOOLEAN ELSE {TRUE}
Erasable(sel) == FilterErasable(SelectedDevices(devices, sel))

SelectedIds(sel) ==
    LET selected == SelectedDevices(devices, sel)
    IN  [i \in DOMAIN selected |-> selected[i].device_id]

Step == steps < MaxSteps /\ steps' = steps + 1

\* what a flow leaves behind in the window and in device_scan._last_warning
Ran(flow, sel, result) ==
    /\ Step
    /\ \E r \in {result} :
        /\ op' = [flow |-> flow, selected |-> SelectedIds(sel), handed |-> r.handed,
                  calls |-> r.calls, commands |-> r.commands, error |-> r.error,
                  logged |-> r.logged, exits |-> r.exits, jbod |-> <<>>]
        /\ devices' = r.devices
        /\ last_warning' = IF r.scanned
                           THEN ScanMegaraidDevices(storcli, lsblk, last_warning).warning
                           ELSE last_warning
    /\ UNCHANGED <<lsblk, storcli, expert_enabled, config, target_info, lsblk_run, resolved>>

\* what the set-jbod command of a controller may raise
JbodOutcomes == {"", "storcli-jbod-unsupported", "sudo-Authentifizierung fehlgeschlagen"}

\* raid_storcli.set_all_drives_to_jbod() as the handlers of the window call
\* it: the controllers the command is issued to
IssuedJbod(st, outcomes) ==
    SetAllDrivesToJbod(st.err, [i \in DOMAIN st.ctrls |-> st.ctrls[i].id], outcomes).issued

\* MainWindow._reload_devices under the given expert mode, after a handler
\* that issued the set-jbod command to the controllers jbod
ReloadedAfter(expert, jbod) ==
    /\ Step
    /\ \E r \in {ReloadDevices(ShowSystemDisks \/ expert, storcli, lsblk, devices,
                               last_warning)} :
        /\ devices' = r.devices
        /\ last_warning' = r.warning
    /\ op' = [IdleOp EXCEPT !.jbod = jbod]

\* MainWindow._reload_devices under the given expert mode
Reloaded(expert) == ReloadedAfter(expert, <<>>)

Init ==
    /\ lsblk \in KernelInventories
    /\ lsblk_run = "ok"
    /\ storcli \in StorcliAnswers
    /\ expert_enabled = FALSE
    /\ config \in Configs
    /\ \E r \in {ReloadDevices(ShowSystemDisks, storcli, lsblk, <<>>, NoWarning)} :
        devices = r.devices /\ last_warning = r.warning
    /\ \E outcomes \in [DOMAIN storcli.ctrls -> JbodOutcomes] :
        op = [IdleOp EXCEPT !.jbod = IssuedJbod(storcli, outcomes)]
    /\ steps = 0
    /\ target_info = None
    /\ resolved = Pending

\* a disk is plugged in or pulled
KernelChange ==
    /\ Step
    /\ \E inventory \in KernelInventories \ {lsblk} : lsblk' = inventory
    /\ op' = IdleOp
    /\ UNCHANGED <<storcli, devices, last_warning, expert_enabled, config,
                   target_info, lsblk_run, resolved>>

\* the controller tool answers differently
StorcliChange ==
    /\ Step
    /\ \E answer \in StorcliAnswers \ {storcli} : storcli' = answer
    /\ op' = IdleOp
    /\ UNCHANGED <<lsblk, devices, last_warning, expert_enabled, config,
                   target_info, lsblk_run, resolved>>

\* MainWindow.on_refresh_clicked
OnRefreshClicked ==
    /\ \E outcomes \in [DOMAIN storcli.ctrls -> JbodOutcomes] :
        ReloadedAfter(expert_enabled, IssuedJbod(storcli, outcomes))
    /\ UNCHANGED <<lsblk, storcli, expert_enabled, config, target_info, lsblk_run, resolved>>

\* MainWindow.set_megaraid_jbod
SetMegaraidJbod ==
    /\ IF ~ expert_enabled
       THEN /\ Step
            /\ op' = IdleOp
            /\ UNCHANGED <<devices, last_warning>>
       ELSE \E outcomes \in [DOMAIN storcli.ctrls -> JbodOutcomes] :
                ReloadedAfter(expert_enabled, IssuedJbod(storcli, outcomes))
    /\ UNCHANGED <<lsblk, storcli, expert_enabled, config, target_info, lsblk_run, resolved>>

\* MainWindow.toggle_expert: ExpertMode.toggle, then _on_expert_change
ToggleExpert ==
    \E pin \in Pins :
        LET enabled == IF expert_enabled THEN FALSE ELSE pin = EXPERT_PIN
        IN  /\ expert_enabled' = enabled
            /\ Reloaded(enabled)
            /\ UNCHANGED <<lsblk, storcli, config, target_info, lsblk_run, resolved>>

\* MainWindow.apply_config
ApplyConfig ==
    \E mode \in BadblocksModes :
        /\ config' = [config EXCEPT !.default_badblocks_mode = mode]
        /\ Reloaded(expert_enabled)
        /\ UNCHANGED <<lsblk, storcli, expert_enabled, target_info, lsblk_run, resolved>>

\* MainWindow.run_secure_erase
RunSecureErase ==
    \E sel \in Selections, tool \in Tools, standard \in Standards :
      \E handed \in {Erasable(sel)} :
        \E oks \in Outcomes(IF tool = "secure" /\ ValidToolStandard(tool, standard)
                            THEN Len(handed) ELSE 0),
           confirm \in Answers(tool = "secure" /\ ValidToolStandard(tool, standard)
                               /\ handed # <<>>) :
            Ran("secure_erase", sel,
                IF ValidToolStandard(tool, standard)
                THEN RunSecureEraseFlow(devices, handed, tool, standard, confirm, oks,
                                        storcli, lsblk)
                ELSE [NoFlow(devices) EXCEPT !.handed = handed])

\* MainWindow.run_nwipe
RunNwipe ==
    \E sel \in Selections :
      \E handed \in {Erasable(sel)} :
        Ran("nwipe", sel, NwipeFlow(devices, handed, storcli, lsblk))

\* MainWindow.run_badblocks
RunBadblocks ==
    \E sel \in Selections,
       mode \in {IF expert_enabled THEN config.default_badblocks_mode ELSE "read-only"} :
      \E handed \in {IF mode = "destructive" THEN Erasable(sel)
                     ELSE SelectedDevices(devices, sel)} :
        \E oks \in Outcomes(Len(handed)), confirm \in Answers(mode = "destructive") :
            Ran("badblocks " \o mode, sel,
                BadblocksFlow(devices, handed, mode, confirm, oks, lsblk))

\* MainWindow.run_fio and run_fio_stress
RunFio ==
    \E sel \in Selections, flow \in {"fio", "fio_stress"} :
      \E handed \in {Erasable(sel)} :
        \E oks \in Outcomes(Len(handed)) :
            Ran(flow, sel, FioFlow(devices, handed, oks, storcli, lsblk))

Next ==
    \/ KernelChange
    \/ StorcliChange
    \/ OnRefreshClicked
    \/ SetMegaraidJbod
    \/ ToggleExpert
    \/ ApplyConfig
    \/ RunSecureErase
    \/ RunNwipe
    \/ RunBadblocks
    \/ RunFio

Spec == Init /\ [][Next]_vars

(***************************************************************************)
(* The batch harness: the main window started on a controller with two     *)
(* drives, so that one secure erase works on a batch of two devices.       *)
(***************************************************************************)
BatchStorcli ==
    { [err |-> "", ctrls |-> <<Controller("", pds)>>] :
        pds \in {s \in SubSeqsUpTo(PdPool, 2) : Len(s) = 2} }

BatchInit ==
    /\ lsblk \in KernelInventories
    /\ lsblk_run = "ok"
    /\ storcli \in BatchStorcli
    /\ expert_enabled = FALSE
    /\ config \in Configs
    /\ \E r \in {ReloadDevices(ShowSystemDisks, storcli, lsblk, <<>>, NoWarning)} :
        devices = r.devices /\ last_warning = r.warning
    /\ \E outcomes \in [DOMAIN storcli.ctrls -> JbodOutcomes] :
        op = [IdleOp EXCEPT !.jbod = IssuedJbod(storcli, outcomes)]
    /\ steps = 0
    /\ target_info = None
    /\ resolved = Pending

BatchNext ==
    \/ OnRefreshClicked
    \/ RunSecureErase

BatchSpec == BatchInit /\ [][BatchNext]_vars

(***************************************************************************)
(* Claims about the program, checked under Spec.                           *)
(***************************************************************************)
IsMegaraid(dev) == StartsWith(dev.path, MegaraidPrefix)
KernelPaths == {d.path : d \in SeqToSet(ScanLinuxDisks(lsblk))}
OpCalls == {op.calls[i] : i \in DOMAIN op.calls}
OpCommands == {op.commands[i] : i \in DOMAIN op.commands}
DestructiveResolutions ==
    {c \in OpCalls : c.fn \in {"resolve_erase_target", "fio.resolve_target"}
                     /\ IsMegaraid(c.dev)}
\* what the same call returns for the record without its cached target
Uncached(c) ==
    IF c.fn = "fio.resolve_target"
    THEN FioResolveTarget([c.dev EXCEPT !.target = None], storcli, lsblk).result
    ELSE ResolveEraseTarget([c.dev EXCEPT !.target = None], storcli, lsblk)

\* C1: for a controller-attached record, what resolve_erase_target and
\* fio_runner.resolve_target return does not depend on the record's cached
\* target: a cached /dev/sdX that no kernel disk carries makes the call fail.
C1_TargetIndependentOfCache ==
    \A c \in DestructiveResolutions :
        /\ c.result = Uncached(c)
        /\ (IsKernelShape(c.dev.target) /\ c.dev.target \notin KernelPaths)
               => IsRaise(c.result)

\* the path cached by the last reload is returned after the disk was pulled
C1_StaleTargetReturned ==
    \E c \in DestructiveResolutions :
        /\ c.dev.target \notin KernelPaths
        /\ c.result = c.dev.target
        /\ IsRaise(Uncached(c))
        /\ \E cmd \in OpCommands : cmd.target = c.result

\* C2: for a controller-attached device, a path returned by
\* resolve_erase_target or fio_runner.resolve_target is the path of a disk in
\* the kernel inventory at the time of the call; it is never taken from the
\* record alone or from the controller's OS-path hint.
C2_ReturnedPathInKernel ==
    \A c \in DestructiveResolutions : IsRaise(c.result) \/ c.result \in KernelPaths

\* the controller's hint comes back although no kernel disk has that path,
\* cached target or not
C2_HintReturned ==
    \E c \in DestructiveResolutions :
        /\ c.result = c.dev.os_path
        /\ c.result \notin KernelPaths
        /\ Uncached(c) = c.result

\* C3: the target of every command of the secure-erase planner, of run_nwipe
\* and of run_badblocks begins with /dev/sd or /dev/nvme.
C3_CommandTargetShape ==
    (op.flow \in {"secure_erase", "nwipe", "badblocks read-only", "badblocks destructive"})
        => \A cmd \in OpCommands : IsKernelShape(cmd.target)

\* badblocks runs on the card reader
C3_BadblocksOnOtherPath ==
    /\ op.flow = "badblocks read-only"
    /\ \E cmd \in OpCommands :
        cmd.argv0 = "badblocks -sv" /\ cmd.target = <<"/dev/", "mmcblk", "0">>

\* C5: in every state of the device list, after any refreshes and result
\* updates, a kernel-addressed device has erase_allowed = FALSE;
\* erase_allowed = TRUE is found on controller-attached records only.
C5_KernelNeverErasable ==
    \A i \in DOMAIN devices :
        /\ ~ IsMegaraid(devices[i]) => ~ devices[i].erase_allowed
        /\ devices[i].erase_allowed => IsMegaraid(devices[i])

\* a kernel disk that is no system disk, with a test result kept over a reload
C5_Witness ==
    /\ op.flow = "idle"
    /\ \E i \in DOMAIN devices :
        /\ ~ IsMegaraid(devices[i])
        /\ ~ devices[i].is_system
        /\ devices[i].erase_ok = "True"

\* C6: every record scan_megaraid_devices produces has erase_allowed = TRUE
\* and is_system = FALSE, whatever the drive's identity and kernel path.
C6_ControllerAlwaysErasable ==
    /\ \A d \in SeqToSet(ScanMegaraidDevices(storcli, lsblk, last_warning).devices) :
        d.erase_allowed /\ ~ d.is_system
    /\ \A i \in DOMAIN devices :
        IsMegaraid(devices[i]) => devices[i].erase_allowed /\ ~ devices[i].is_system

\* a drive without identity and without kernel disk, in the list reloaded
\* after an erase that failed
C6_Witness ==
    /\ steps > 0 /\ op.flow = "idle"
    /\ \E i \in DOMAIN devices :
        /\ IsMegaraid(devices[i])
        /\ devices[i].serial = "UNKNOWN"
        /\ ~ IsKernelShape(devices[i].target)
        /\ devices[i].erase_ok = "False"
        /\ devices[i].erase_allowed

WriteFlows == {"secure_erase", "nwipe", "badblocks destructive", "fio", "fio_stress"}
SelectedSet == {op.selected[i] : i \in DOMAIN op.selected}
ErasableIds == {devices[i].device_id : i \in {j \in DOMAIN devices : devices[j].erase_allowed}}

\* C7: in every flow that issues a write or erase command, every device
\* handed to the runner has erase_allowed = TRUE: the other selected devices
\* are dropped before a target is resolved or a command built, and with no
\* erasable device selected no command is issued.
C7_OnlyErasableHanded ==
    (op.flow \in WriteFlows) =>
        /\ \A i \in DOMAIN op.handed :
            op.handed[i].erase_allowed /\ op.handed[i].device_id \in SelectedSet
        /\ \A c \in OpCalls : c.dev.erase_allowed /\ c.dev.device_id \in ErasableIds
        /\ \A cmd \in OpCommands : cmd.device_id \in ErasableIds \cap SelectedSet
        /\ (SelectedSet \cap ErasableIds = {}) => (op.commands = <<>> /\ op.calls = <<>>)

\* a kernel disk and a controller drive selected: only the drive is erased
C7_Witness ==
    /\ op.flow = "secure_erase"
    /\ SelectedSet \ ErasableIds # {}
    /\ Len(op.handed) = 1
    /\ op.commands # <<>>

(***************************************************************************)
(* Claims about the target resolution, checked under ResolverSpec.         *)
(***************************************************************************)
ResolveDone == resolved # Pending /\ resolved[1] \in {"erase", "fio"}

\* C4: resolve_erase_target and fio_runner.resolve_target return a path that
\* begins with /dev/sd or /dev/nvme, or raise; a kernel-addressed record
\* whose path lacks the prefix fails.
C4_KernelPathOrError ==
    ResolveDone =>
        /\ IsRaise(resolved[2])
            \/ StartsWith(resolved[2], SdPrefix) \/ StartsWith(resolved[2], NvmePrefix)
        /\ (~ IsMegaraid(target_info)
                /\ ~ StartsWith(target_info.path, SdPrefix)
                /\ ~ StartsWith(target_info.path, NvmePrefix)) => IsRaise(resolved[2])

\* the card reader's record is refused
C4_Witness ==
    /\ ResolveDone
    /\ target_info.path = <<"/dev/", "mmcblk", "0">>
    /\ IsRaise(resolved[2])

(***************************************************************************)
(* Claims about _match_linux_device, checked under ResolverSpec.           *)
(***************************************************************************)
MatchDone == resolved # Pending /\ resolved[1] = "match"
KernelRecords == SeqToSet(ScanLinuxDisks(lsblk))
SerialHits ==
    {d \in KernelRecords : SerialUsable(target_info.serial) /\ d.serial = target_info.serial}
ModelSizeHits ==
    {d \in KernelRecords : d.model = target_info.model /\ d.size = target_info.size}
Known(text) == text # "" /\ text # "UNKNOWN"
LargestOf(d, hits) ==
    \A e \in hits : ~ Greater(SizeToBytes(e.size), SizeToBytes(d.size))

C9_ModelSizeMatch ==
    (MatchDone /\ SerialHits = {} /\ Known(target_info.model)
        /\ target_info.size # NoSize /\ ModelSizeHits # {}) =>
            /\ \E d \in ModelSizeHits : resolved[2] = d.path /\ LargestOf(d, ModelSizeHits)
            /\ \A d \in ModelSizeHits : ModelSizeHits = {d} => resolved[2] = d.path

\* no serial, model ST2000 and size "1.8 TB" equal to exactly one kernel device,
\* next to a device of the same model and another size
C9_Witness ==
    /\ MatchDone
    /\ target_info.serial = "UNKNOWN"
    /\ target_info.model = "ST2000"
    /\ Cardinality(ModelSizeHits) = 1
    /\ \E d \in KernelRecords : d.model = "ST2000" /\ d \notin ModelSizeHits
    /\ \E d \in ModelSizeHits : resolved[2] = d.path

\* C10: when neither the serial nor (model, size) yields a kernel device, the
\* resolver returns the drive's OS-path hint if the hint begins with /dev/sd
\* or /dev/nvme, and None in every other case, the placeholder
\* /dev/megaraid/<controller>/<enclosure>:<slot> included.
C10_HintOnlyIfKernelPath ==
    (MatchDone /\ SerialHits = {}
        /\ (target_info.model = "" \/ target_info.size = NoSize \/ ModelSizeHits = {})) =>
            resolved[2] = IF IsKernelShape(target_info.os_path)
                          THEN target_info.os_path ELSE None

\* the placeholder comes back as the resolved path
C10_PlaceholderReturned ==
    /\ MatchDone
    /\ SerialHits = {} /\ ModelSizeHits = {}
    /\ target_info.os_path = VirtualPath("0", "8:2")
    /\ resolved[2] = VirtualPath("0", "8:2")

LinuxScanDone == resolved # Pending /\ resolved[1] = "scan_linux_disks"
AllScanDone == resolved # Pending /\ resolved[1] = "scan_all_devices"
MountTestDone == resolved # Pending /\ resolved[1] = "is_system_mountpoint"
\* the record scan_linux_disks returned for the disk of the run
ScannedRecords == SeqToSet(resolved[2].devices)

\* C12: every kernel disk whose transport is sata or ata has is_system = TRUE,
\* whatever its mountpoints and its removable and hotplug flags.
C12_SataAlwaysSystem ==
    (LinuxScanDone /\ lsblk_run = "ok") =>
        /\ resolved[2].raised = ""
        /\ \A i \in DOMAIN lsblk :
            lsblk[i].tran \in {"sata", "ata"} =>
                \E d \in ScannedRecords : d.path = lsblk[i].path /\ d.is_system

\* a removable, hot-pluggable sata disk without mountpoints
C12_Witness ==
    /\ LinuxScanDone
    /\ lsblk # <<>>
    /\ lsblk[1].tran = "sata" /\ lsblk[1].rm = "true" /\ lsblk[1].hotplug = "true"
    /\ CollectMountpoints(lsblk[1]) = {}
    /\ \E d \in ScannedRecords : d.path = lsblk[1].path /\ d.is_system

\* C13: every kernel disk that is not removable, not hot-pluggable and not
\* attached by USB has is_system = TRUE, whatever its transport, however the
\* removable flag is encoded ("0", 0 or false), even without mountpoints.
C13_InternalAlwaysSystem ==
    (LinuxScanDone /\ lsblk_run = "ok") =>
        \A i \in DOMAIN lsblk :
            ( /\ lsblk[i].rm \in {"\"0\"", "0", "false"}
              /\ lsblk[i].hotplug = "false"
              /\ lsblk[i].tran # "usb" ) =>
                \E d \in ScannedRecords : d.path = lsblk[i].path /\ d.is_system

\* an nvme disk with "rm": false, not hot-pluggable, without mountpoints, is
\* no system disk
C13_InternalNotSystem ==
    /\ LinuxScanDone
    /\ lsblk # <<>>
    /\ lsblk[1].tran = "nvme" /\ lsblk[1].rm = "false" /\ lsblk[1].hotplug = "false"
    /\ CollectMountpoints(lsblk[1]) = {}
    /\ \E d \in ScannedRecords : d.path = lsblk[1].path /\ ~ d.is_system

\* the directory names of a path, and whether a is a proper path-prefix of b
Components(p) == SelectSeq(p, LAMBDA t : t # "/")
Absolute(p) == p # <<>> /\ p[1] = "/"
PathPrefix(a, b) ==
    /\ Absolute(a) /\ Absolute(b)
    /\ Len(Components(a)) < Len(Components(b))
    /\ SubSeq(Components(b), 1, Len(Components(a))) = Components(a)
\* the mountpoints of the disk, of its partitions and of their children
TestedMountpoints ==
    LET disk == lsblk[1]
        parts == {disk.children[i] : i \in DOMAIN disk.children}
        below == UNION {{p.children[i] : i \in DOMAIN p.children} : p \in parts}
    IN  disk.mountpoints \cup UNION {p.mountpoints : p \in parts \cup below}

\* C14 as stated: the mountpoint test answers TRUE exactly when one of the
\* mountpoints of the disk and its children equals, or is a path-prefix of, a
\* member of the fixed set.
C14_ProtectedIffPrefixOfMember ==
    MountTestDone =>
        (resolved[2] <=> \E mp \in TestedMountpoints : \E m \in SYSTEM_MOUNTPOINTS :
                            mp = m \/ PathPrefix(mp, m))

\* C14 amended: the mountpoint test answers TRUE exactly when one of the
\* mountpoints of the disk and its children at any depth equals a member of
\* the fixed set or lies below one (the member is a path-prefix of it).
C14_ProtectedIffUnderMember ==
    MountTestDone =>
        (resolved[2] <=> \E mp \in TestedMountpoints : \E m \in SYSTEM_MOUNTPOINTS :
                            mp = m \/ PathPrefix(m, mp))

\* /home/user on the second partition makes the disk protected
C14_Witness ==
    /\ MountTestDone
    /\ <<"/", "home", "/", "user">> \in TestedMountpoints
    /\ lsblk[1].mountpoints = {}
    /\ resolved[2]

\* ---------------------------------------------------------------------------
\* Claims about the identity fields of the listed devices, checked under Spec
\* ---------------------------------------------------------------------------

\* C15 as stated: every record of the unified device list, kernel disk or
\* controller drive, carries a non-empty serial and a non-empty model.
C15_SerialAndModelNeverEmpty ==
    \A i \in DOMAIN devices : devices[i].serial # "" /\ devices[i].model # ""

\* a kernel disk without a serial is listed with the empty serial after a reload
C15_EmptySerialListed ==
    /\ steps > 0
    /\ \E i \in DOMAIN devices :
          /\ ~StartsWith(devices[i].path, MegaraidPrefix)
          /\ devices[i].serial = ""
          /\ \E j \in DOMAIN lsblk : lsblk[j].serial = "" /\ lsblk[j].path = devices[i].path

\* ---------------------------------------------------------------------------
\* Claims about the controller drives of a scan, checked under ScanSpec
\* ---------------------------------------------------------------------------
\* the records scan_all_devices returned
UnifiedRecords == SeqToSet(resolved[3].devices)
\* the summary entries of the controllers that answered, with their controller
SummaryEntries ==
    UNION { { <<storcli.ctrls[c].id, storcli.ctrls[c].pds[k]>> : k \in DOMAIN storcli.ctrls[c].pds }
            : c \in DOMAIN storcli.ctrls }

\* C16 as stated: a non-empty serial or model of the summary PD LIST entry is
\* the serial or model of the listed drive, whatever the detail dump holds.
C16_SummaryWins ==
    AllScanDone =>
        \A e \in SummaryEntries : \A rec \in UnifiedRecords :
            rec.path = VirtualPath(e[1], e[2].eid_slt) =>
                /\ e[2].sn # "" => rec.serial = e[2].sn
                /\ e[2].model # "" => rec.model = e[2].model

\* the drive 8:5 is listed with the serial of its detail dump although its
\* summary entry carries another one
C16_DetailOverridesSummary ==
    /\ AllScanDone
    /\ \E e \in SummaryEntries : \E rec \in UnifiedRecords :
          /\ rec.path = VirtualPath(e[1], e[2].eid_slt)
          /\ e[2].sn = "S5SUM"
          /\ e[2].detail.sn = "S5DET"
          /\ rec.serial = "S5DET"

\* C19 as stated: when lsblk is missing, fails, or prints something that is
\* not the expected JSON structure, scan_linux_disks returns the empty list
\* and logs a diagnostic; no exception leaves it.
C19_FailedScanIsEmpty ==
    (LinuxScanDone /\ lsblk_run # "ok") =>
        /\ resolved[2].raised = ""
        /\ resolved[2].devices = <<>>
        /\ resolved[2].logged

\* lsblk prints the JSON value null and AttributeError leaves scan_linux_disks
C19_ScanRaises ==
    /\ LinuxScanDone
    /\ lsblk_run = "null"
    /\ resolved[2].raised = "AttributeError"
    /\ ~ resolved[2].logged

\* the drives of the controllers that answered, as paths
AnsweredDrives ==
    IF storcli.err # "" THEN {}
    ELSE { VirtualPath(e[1], e[2].eid_slt) :
             e \in UNION { { <<storcli.ctrls[c].id, storcli.ctrls[c].pds[k]>> :
                               k \in DOMAIN storcli.ctrls[c].pds }
                           : c \in {d \in DOMAIN storcli.ctrls : storcli.ctrls[d].err = ""} } }
\* the kernel disks scan_all_devices is to show
ShownKernelDisks ==
    { d \in SeqToSet(ScanLinuxDisks(lsblk)) : resolved[2] \/ ~ d.is_system }

\* C20 as stated: scan_all_devices lists every kernel disk lsblk reports
\* whatever the controller calls do, and every drive of every controller that
\* answers whatever lsblk and the other controllers do.
C20_IndependentFailureDomains ==
    AllScanDone =>
        /\ resolved[3].raised = ""
        /\ lsblk_run = "ok" => ShownKernelDisks \subseteq UnifiedRecords
        /\ AnsweredDrives \subseteq {rec.path : rec \in UnifiedRecords}

\* lsblk prints null, a controller reports drives, and scan_all_devices
\* raises without listing them
C20_ControllerDrivesLost ==
    /\ AllScanDone
    /\ lsblk_run = "null"
    /\ AnsweredDrives # {}
    /\ resolved[3].raised = "AttributeError"
    /\ resolved[3].devices = <<>>

\* ---------------------------------------------------------------------------
\* The scan and resolution of one drive end to end, checked under Spec
\* ---------------------------------------------------------------------------
\* the drives 8:2 of the controllers that answered whose summary entry has no
\* serial and whose detail dump holds one in the "Device attributes" block
NestedSerialDrives ==
    { e \in UNION { { <<storcli.ctrls[c].id, storcli.ctrls[c].pds[k]>> :
                        k \in DOMAIN storcli.ctrls[c].pds }
                    : c \in {d \in DOMAIN storcli.ctrls : storcli.ctrls[d].err = ""} } :
        /\ storcli.err = ""
        /\ e[2].eid_slt = "8:2"
        /\ e[2].sn = ""
        /\ e[2].detail.found # "none"
        /\ e[2].detail.sn = ""
        /\ e[2].detail.attributes_sn # "" }
\* the kernel disks that carry the serial
DisksWithSerial(serial) == {i \in DOMAIN lsblk : lsblk[i].serial = serial}
\* rec is the record of drive e, resolved to the kernel disk i
ResolvedTo(rec, e, i) ==
    /\ rec.path = VirtualPath(e[1], "8:2")
    /\ rec.target = lsblk[i].path
    /\ rec.erase_allowed = TRUE
    /\ rec.mapping_hint = MappingHint(VirtualPath(e[1], "8:2"), lsblk[i].path)

LoggedResolutions ==
    { <<c, op.logged[k]>> : c \in {d \in OpCalls : /\ StartsWith(d.dev.path, MegaraidPrefix)
                                                   /\ ~ IsRaise(d.result)
                                                   /\ Truthy(d.result)},
                            k \in DOMAIN op.logged }
\* the entry is one of the drive of the call
SameDrive(p) == p[2].device_id = p[1].dev.device_id

\* C18 as stated: in the secure-erase, nwipe, badblocks and FIO flows, the
\* wipe-log entry of a controller drive whose target was resolved carries a
\* mapping hint naming the virtual path and the resolved kernel path.
C18_MappingHintLogged ==
    \A p \in LoggedResolutions :
        SameDrive(p) => p[2].mapping_hint = MappingHint(p[1].dev.path, p[1].result)

\* the secure-erase flow logs a resolved controller drive with the planner's
\* method label in place of the mapping
C18_PlannerLabelLogged ==
    /\ op.flow = "secure_erase"
    /\ op.error = Empty
    /\ \E p \in LoggedResolutions :
          /\ SameDrive(p)
          /\ StartsWith(p[1].result, SdPrefix)
          /\ p[2].mapping_hint = <<"Secure Erase → hdparm security-erase">>

\* ---------------------------------------------------------------------------
\* Claims about the matching of the runners, checked under ResolverSpec
\* ---------------------------------------------------------------------------
BadblocksDone == resolved # Pending /\ resolved[1] = "badblocks"
\* the kernel path resolve_megaraid_target yields for the record, if any
EnginePaths ==
    { p \in {ResolveMegaraidTarget(target_info, storcli, lsblk)} :
        Truthy(p) /\ (StartsWith(p, SdPrefix) \/ StartsWith(p, NvmePrefix)) }

\* C24 as stated: for a controller record, the path run_badblocks resolves is
\* the one resolve_megaraid_target yields on the same inputs, and
\* run_badblocks raises exactly when that resolution yields no kernel path.
C24_BadblocksUsesEngineMatch ==
    (BadblocksDone /\ StartsWith(PathOrDevice(target_info), MegaraidPrefix)) =>
        /\ \A p \in EnginePaths : resolved[2] = p
        /\ EnginePaths = {} <=> IsRaise(resolved[2])

\* run_badblocks raises for a drive the engine resolves by its serial
C24_BadblocksFailsWhereEngineMatches ==
    /\ BadblocksDone
    /\ StartsWith(PathOrDevice(target_info), MegaraidPrefix)
    /\ SerialUsable(target_info.serial)
    /\ \E i \in DOMAIN lsblk :
          /\ lsblk[i].serial = target_info.serial
          /\ EnginePaths = {lsblk[i].path}
    /\ IsRaise(resolved[2])

\* ---------------------------------------------------------------------------
\* Claims about the warning of a refresh, checked under EngineSpec
\* ---------------------------------------------------------------------------
\* the callers whose reload has read the warning for the status line, with
\* no other caller at work
FinishedReloads ==
    { c \in Callers : /\ resolved[2][c].pc = "read"
                      /\ resolved[2][c].fn = "reload_devices"
                      /\ \A d \in Callers \ {c} : resolved[2][d].pc = "idle" }

\* C25 as stated: when the inventory scan of a refresh met a controller
\* error, get_last_warning() is non-empty when the refresh finishes, whatever
\* resolution calls the refresh made.
C25_WarningSurvivesRefresh ==
    \A c \in FinishedReloads :
        resolved[2][c].met_error => resolved[2][c].diagnostic # NoWarning

\* the inventory scan met an error of controller 1, the tool answered again
\* when the drive of controller 0 was resolved, and the refresh ends with an
\* empty warning
C25_WarningLost ==
    \E c \in FinishedReloads :
        /\ resolved[2][c].met_error
        /\ Len(resolved[2][c].inventory) = 1
        /\ resolved[2][c].diagnostic = NoWarning

\* ---------------------------------------------------------------------------
\* Claims about the detail dump, checked under DumpSpec
\* ---------------------------------------------------------------------------
CollectDone == resolved # Pending /\ resolved[1] = "collect_pd_details"

RECURSIVE AllBlocks(_)
AllBlocks(values) ==
    UNION { {values[i]} \cup AllBlocks(values[i].blocks) : i \in DOMAIN values }

\* the serials a block holds in a structured field: its direct field, its
\* "Inquiry Data" block, its "Device attributes" blocks
StructuredAt(value) ==
    ( {value.sn}
      \cup { b.sn : b \in { value.blocks[i] : i \in { j \in DOMAIN value.blocks :
                   value.blocks[j].key.name \in {"Inquiry Data", "Device attributes"} } } } )
    \ {""}

StructuredFor(slot) ==
    UNION { StructuredAt(value) :
              value \in { b \in AllBlocks(target_info) : BlockSlot(b) = slot } }

\* C26 as stated: when the dump holds a structured serial field for a drive
\* anywhere, the serial collected for the drive is a structured one, never
\* what the regular expression mined.
C26_RegexIsLowestPriority ==
    CollectDone =>
        \A slot \in DumpSlots :
            StructuredFor(slot) # {} => resolved[2][slot].serial \in StructuredFor(slot)

\* the summary entry comes first and the regular expression finds a serial
\* in its strings; the "Device attributes" block that follows names the
\* serial, and the mined value is what is collected
C26_RegexHitKept ==
    /\ CollectDone
    /\ Len(target_info) = 2
    /\ target_info[1] = SummaryBlock("V2S1000G")
    /\ target_info[2] = DetailedBlock("", "", "S2ATT")
    /\ resolved[2]["8:2"].serial = "V2S1000G"

\* ---------------------------------------------------------------------------
\* Claims about the targets of destructive calls, checked under ResolverSpec
\* ---------------------------------------------------------------------------
\* resolve_erase_target returned a path for a controller device
EraseResolved ==
    /\ resolved # Pending
    /\ resolved[1] = "erase"
    /\ StartsWith(FirstOf(target_info), MegaraidPrefix)
    /\ ~ IsRaise(resolved[2])

SystemPaths ==
    { d.path : d \in { ScanLinuxDisks(lsblk)[i] : i \in { j \in DOMAIN lsblk :
                          ScanLinuxDisks(lsblk)[j].is_system } } }

\* C27 as stated: the path that target resolution returns for a controller
\* device is never the path of a kernel disk classified as system disk.
C27_NeverSystemDisk == EraseResolved => resolved[2] \notin SystemPaths

\* the controller reports no serial for the drive; its model and size are
\* those of the onboard SATA disk, and that disk is the erase target
C27_SystemDiskByModelSize ==
    /\ EraseResolved
    /\ target_info.serial = "UNKNOWN"
    /\ target_info.os_path = VirtualPath("0", "8:2")
    /\ resolved[2] = <<"/dev/", "sd", "q">>
    /\ resolved[2] \in SystemPaths

\* ---------------------------------------------------------------------------
\* Claims about the targets within one inventory, checked under ScanSpec
\* ---------------------------------------------------------------------------
ReloadDone == resolved # Pending /\ resolved[1] = "reload_devices"

\* the rows of controller drives that the reload resolved to a kernel disk
ResolvedRows ==
    { i \in DOMAIN devices :
        /\ StartsWith(devices[i].path, MegaraidPrefix)
        /\ \E k \in DOMAIN lsblk : lsblk[k].path = devices[i].target }

\* C28 as stated: within one inventory two distinct controller drives never
\* resolve to the same kernel path.
C28_TargetsDistinct ==
    ReloadDone =>
        \A i, j \in ResolvedRows :
            devices[i].path # devices[j].path => devices[i].target # devices[j].target

\* two drives of one controller report the serial of the one kernel disk,
\* and both rows have that disk as target
C28_TwoDrivesOneTarget ==
    /\ ReloadDone
    /\ Len(devices) >= 2
    /\ {1, 2} \subseteq ResolvedRows
    /\ devices[1].path # devices[2].path
    /\ devices[1].serial = "S4X" /\ devices[2].serial = "S4X"
    /\ devices[1].target = devices[2].target

\* ---------------------------------------------------------------------------
\* Claims about a secure erase over a batch, checked under BatchSpec
\* ---------------------------------------------------------------------------
\* run_secure_erase has worked with the planner on a batch and logged it
SecureDone ==
    /\ op.flow = "secure_erase"
    /\ op.handed # <<>>
    /\ op.logged # <<>>
    /\ \E i \in DOMAIN op.calls : op.calls[i].fn = "resolve_erase_target"
    /\ \A i \in DOMAIN op.commands : op.commands[i].argv0 # "nwipe"

\* all commands of the device ran and exited 0
RanAndExitedZero(device_id) ==
    \E k \in DOMAIN op.exits : op.exits[k].device_id = device_id /\ op.exits[k].ok

\* C29 as stated: after run_secure_erase over a batch, the erase_ok of each
\* device of the batch in the device list is true exactly when all commands
\* of that device ran and exited 0, whatever happened to the other devices.
C29_EraseOkPerDevice ==
    SecureDone =>
        \A i \in DOMAIN devices :
            (\E k \in DOMAIN op.handed : op.handed[k].device_id = devices[i].device_id)
                => (devices[i].erase_ok = "True" <=> RanAndExitedZero(devices[i].device_id))

\* the commands of the first device of the batch exited 0, the resolution of
\* the second raised, and the first device is recorded as not erased
C29_ErasedMarkedFailed ==
    /\ SecureDone
    /\ Len(op.handed) = 2
    /\ op.error # Empty
    /\ RanAndExitedZero(op.handed[1].device_id)
    /\ \E i \in DOMAIN devices :
           devices[i].device_id = op.handed[1].device_id /\ devices[i].erase_ok = "False"

\* ---------------------------------------------------------------------------
\* Claims about the JBOD command, checked under Spec
\* ---------------------------------------------------------------------------
\* C30 as stated: the set-jbod command is only ever issued while expert mode
\* is enabled.
C30_JbodOnlyInExpertMode == op.jbod # <<>> => expert_enabled

\* a refresh click has issued the command to controller 0 with expert mode
\* disabled
C30_JbodOnRefresh ==
    /\ steps > 0
    /\ op.flow = "idle"
    /\ op.jbod = <<"0">>
    /\ ~ expert_enabled

(***************************************************************************)
(* Claims about the controller tool, checked under ToolSpec.               *)
(***************************************************************************)
RunDone == resolved # Pending /\ resolved[1] = "run_storcli_json"
JbodDone == resolved # Pending /\ resolved[1] = "set_all_drives_to_jbod"
ToolScanDone == resolved # Pending /\ resolved[1] = "scan_megaraid_devices"
\* the diagnostic of the run: what it printed on stderr, else on stdout
Diagnostic == IF target_info.stderr # <<>> THEN target_info.stderr ELSE target_info.stdout
\* the error kinds the diagnostic names
NamedKinds ==
    { kind \in {"ToolNotFound", "AuthenticationFailed", "CommandUnsupported"} :
        \/ /\ kind = "ToolNotFound"
           /\ \E i \in DOMAIN Diagnostic :
                 Diagnostic[i] \in {"command not found", "No such file"}
        \/ /\ kind = "AuthenticationFailed"
           /\ \E i \in DOMAIN Diagnostic : Diagnostic[i] = "Authentication failed"
        \/ /\ kind = "CommandUnsupported"
           /\ \/ \E i \in DOMAIN Diagnostic :
                    Diagnostic[i] \in {"command invalid", "Command Invalid"}
              \/ target_info.stdout = StdoutJson("Set Drive JBOD Failed", "command invalid") }
\* the message _run_storcli_json raises for an error kind
MessageOf(kind) ==
    IF kind = "ToolNotFound" THEN "storcli-Binary nicht gefunden"
    ELSE IF kind = "AuthenticationFailed" THEN "sudo-Authentifizierung fehlgeschlagen"
    ELSE "storcli-jbod-unsupported"

C22_UnsupportedIsInformational ==
    RunStorcliJson(target_info) = "storcli-jbod-unsupported" =>
        /\ JbodDone =>
              /\ resolved[3].issued = <<"0", "1">>
              /\ resolved[3].logged = <<IF resolved[2] = 1 THEN "0" ELSE "1">>
              /\ resolved[3].raised = ""
        /\ ToolScanDone =>
              /\ last_warning = NoWarning
              /\ resolved[2].warning = NoWarning

\* the drive listing of controller 0 ends with "command invalid" and the scan
\* records a failure warning
C22_WarningRecorded ==
    /\ ToolScanDone
    /\ target_info.pw /\ target_info.returncode # 0
    /\ target_info.stderr = <<"Command Invalid">>
    /\ last_warning = <<"StorCLI Fehler (", "C0 PD LIST", "): ", "storcli-jbod-unsupported">>

(***************************************************************************)
(* Claims about the engine state, checked under EngineSpec.                *)
(***************************************************************************)
\* the callers that have read the diagnostic after their call
ReadCallers ==
    {c \in Callers : resolved[2][c].pc = "read" /\ resolved[2][c].fn \in EngineCalls}

\* C23 as stated: what a caller's call returns and the diagnostic the caller
\* reads afterwards are those of its own call: the same as when the call runs
\* with no other call around.
C23_CallsLeaveNoState ==
    \A c \in ReadCallers :
        /\ resolved[2][c].result = Returned(resolved[2][c], resolved[2][c].alone.devices)
        /\ resolved[2][c].diagnostic = resolved[2][c].alone.warning

\* a scan met a controller error, another caller's resolution then ran
\* against a controller tool that answers, and the first caller reads an
\* empty diagnostic
C23_WarningCleared ==
    \E c \in ReadCallers : \E d \in Callers \ {c} :
        /\ resolved[2][c].fn = "scan_megaraid_devices"
        /\ resolved[2][c].alone.warning # NoWarning
        /\ resolved[2][d].fn = "resolve_megaraid_target"
        /\ resolved[2][d].pc \in {"returned", "read"}
        /\ resolved[2][c].diagnostic = NoWarning

=============================================================================
